---- MODULE Spec2Model ----
(***************************************************************************)
(* A model of the OpenCog AtomSpace core (opencog-core/src/atomspace.c):   *)
(* the process-wide id generator, the id -> handle hash table, reference   *)
(* counted handles with outgoing / incoming sets, and the AtomSpace with   *)
(* its create, query and destroy operations.                               *)
(*                                                                         *)
(* A handle and the atom it points to are allocated and freed together,    *)
(* so one heap cell (an address of Addr) stands for both.  Addresses name  *)
(* allocations: a cell that was freed is never handed out again.           *)
(***************************************************************************)
EXTENDS Integers, Sequences, FiniteSets, TLC

(* ------------------------------ bounds -------------------------------- *)

\* The number of heap cells: at most this many atoms are ever created.
MaxAtoms == 3

\* The most counts the callers hold at a time, over all handles.
MaxHeld == 2

\* The threads that call atom_create / atom_create_link concurrently.
NumThreads == 2

\* The most calls one thread makes.
MaxCalls == 3

\* The atoms whose truth and attention values the callers set and read.
MaxValueAtoms == 2

\* The nodes of the cluster, ids 1..MaxNodes.
MaxNodes == 2

\* The most consensus_vote calls made on one record.
MaxCast == 3

\* The atoms of other AtomSpaces a caller of this one holds.
MaxForeign == 1

\* mq->max_messages and mq->max_message_size of the queue created, the
\* size in units of sizeof(message_t).
MaxMessages == 2

MaxMessageSize == 2

\* msg_qbytes, the kernel's limit on the bytes in one queue, in the same
\* units.
QueueBytes == 4

\* The priorities callers pass to message_queue_send: 0..MaxPriority.
MaxPriority == 1

\* The sends that are numbered.
MaxSends == 4

\* The heartbeat thread's sends and sleeps that are counted.
MaxTicks == 2

\* The entries callers add to the node table.
MaxTable == 1

\* The distributed_send_message calls of the callers.
MaxCallerSends == 2

\* The entries of the node table when only the table is looked at.
MaxEntries == 3

\* The peers entered in the node table before the handler is looked at.
MaxPeers == 2

\* The threads that use the shared segment, and the values they write.
NumParties == 2

MaxValue == 2

\* The bytes of a payload buffer, and the buffers malloc can hand out.
MaxPayload == 2

MaxAddr == 3

\* The messages a sender builds and sends.
MaxTrips == 1

\* The heartbeat intervals the clock runs for.
MaxClock == 7

\* The heartbeats of a peer that arrive while the clock runs.
MaxPeerBeats == 1

(* ------------------------- program constants -------------------------- *)

HASH_TABLE_SIZE == 10007

ATOM_TYPE_CONCEPT == 0

ATOM_TYPE_LINK == 2

\* The null pointer.
NULL == 0

\* The name of an atom created with name = NULL (a link).
NoName == "<null>"

Addr == 1..MaxAtoms

\* The threads that create atoms, and the value of an unlocked mutex.
Threads == 1..NumThreads

NoThread == 0

\* The node ids of the cluster; 0 is the broadcast address.
NodeIds == 1..MaxNodes

\* No consensus_t has been created.
NoConsensus == [phase |-> 0 - 1]

\* The ids the generator hands out in a bounded run.
MaxId == 2 * MaxAtoms + HASH_TABLE_SIZE

Names == {"a", "b"}

\* The (type, name) pairs callers pass to atom_create.
NodeInputs == { <<ATOM_TYPE_CONCEPT, "a">>, <<ATOM_TYPE_CONCEPT, "b">> }

\* The types callers ask atomspace_get_atoms_by_type for.
Kinds == {ATOM_TYPE_CONCEPT, ATOM_TYPE_LINK}

\* The predicates callers pass to atomspace_match_pattern: pure functions
\* of the handle.
Predicates == {"is_link", "named_a"}

(* ------------------------------- state -------------------------------- *)

VARIABLES
    next_atom_id,         \* static uint64_t next_atom_id
    handles,              \* the heap: address -> handle and atom fields
    freed,                \* the addresses that were freed (reclaimed atoms)
    atoms,                \* space->atoms, slots 1..MaxAtoms (0-based in C)
    atom_count,           \* space->atom_count
    atom_capacity,        \* space->atom_capacity
    total_atoms_created,  \* space->total_atoms_created
    total_atoms_deleted,  \* space->total_atoms_deleted
    lookup_table,         \* the hash table's entries, newest first
    destroyed,            \* atomspace_destroy has freed the space
    fault,                \* the code dereferenced a freed handle
    held,                 \* ghost: retains the callers hold, per handle
    last,                 \* ghost: the last API call and what it returned
    id_mutex,             \* static pthread_mutex_t id_mutex: its holder
    pc,                   \* each thread's position in generate_atom_id
    local_id,             \* each thread's local variable id
    returned,             \* ghost: the ids each thread was returned
    consensus,            \* the consensus_t a caller created, or NoConsensus
    cast,                 \* ghost: the consensus_vote calls made, in order
    kqueue,               \* the System V queue ctx->mq->mq_id, oldest first
    sent,                 \* ghost: the sends made, which number the messages
    mq_last,              \* ghost: the last queue call and what it returned
    rcv,                  \* a caller of the receive functions: its position
    running,              \* ctx->running
    hb_pc,                \* the heartbeat thread's position
    mh,                   \* the handler thread's position and its msg
    ctl_pc,               \* the position of the caller of start and stop
    nodes,                \* ctx->nodes[0..node_count)
    hb_stat,              \* ghost: the heartbeat thread's sends
    ctx_last,             \* ghost: the last call on the context, its result
    callbacks,            \* ctx->on_message, on_node_join, on_node_leave set
    clock,                \* the time of day, in heartbeat intervals
    shm,                  \* the shared segment: its mutex and its payload
    party,                \* the threads that use the shared segment
    heap,                 \* the payload buffers: allocated, whose, their bytes
    tx,                   \* the sending application and its message
    rx,                   \* the receiving application and what it got
    creator,              \* the threads inside atom_create, step by step
    scan                  \* the handler inside its loop over the node table

spaceVars == <<atoms, atom_count, atom_capacity, total_atoms_created,
               total_atoms_deleted, lookup_table, destroyed>>

threadVars == <<id_mutex, pc, local_id, returned>>

\* The consensus record and the votes cast on it.
consVars == <<consensus, cast>>

\* The message queue and the callers of its functions.
queueVars == <<kqueue, sent, mq_last, rcv>>

\* The runtime of a distributed_ctx_t: its flag, threads and node table.
runVars == <<running, hb_pc, mh, ctl_pc, nodes, hb_stat>>

\* The calls on the context as a caller sees them, the time of day, the
\* shared segment, the payload buffers, and the threads taken step by step.
shmVars == <<shm, party>>

tripVars == <<heap, tx, rx>>

raceVars == <<creator, scan>>

lateVars == <<ctx_last, callbacks, clock, shmVars, tripVars, raceVars>>

\* The state of distributed.c.
distVars == <<consVars, queueVars, runVars, lateVars>>

vars == <<next_atom_id, handles, freed, spaceVars, fault, held, last,
          threadVars, distVars>>

\* The state of atomspace.c.
atomVars == <<next_atom_id, handles, freed, spaceVars, fault, held, last,
              threadVars>>

\* The counts the callers hold, over all handles.
RECURSIVE SumTo(_, _)
SumTo(f, n) == IF n = 0 THEN 0 ELSE f[n] + SumTo(f, n - 1)

HeldTotal == SumTo(held, MaxAtoms)

\* The handles that are allocated and not freed.
Live == DOMAIN handles

\* The next fresh heap cell.
NewAddr == Cardinality(Live \cup freed) + 1

\* The ghost record of the calls just made.  After a scan: its arguments,
\* the array and count it returned, the reference counts before it (before)
\* and the returned elements the caller has not released yet (pend).
\* During a run of atom_retain / atom_release calls on one handle h: the
\* reference count before the run (rc0), retains minus releases (bal) and
\* the least value bal took (low).
NoCall == [op |-> "none", out |-> <<>>, count |-> 0,
           kind |-> ATOM_TYPE_CONCEPT, name |-> NoName, pred |-> "none",
           before |-> <<>>, pend |-> <<>>,
           h |-> NULL, rc0 |-> 0, bal |-> 0, low |-> 0, id |-> 0,
           args |-> <<>>]

Scans == {"by_type", "by_name", "match"}

\* message_t: no message (NULL), and the fields of one.
NoMessage == [type |-> "none", source_node |-> 0, dest_node |-> 0,
              timestamp |-> 0, payload_size |-> 0]

\* The threads that use the shared segment.
Parties == 1..NumParties

\* The state keeps per-thread and per-buffer records only for those that
\* differ from their initial value: the record of k in f, and f with the
\* record of k set.
Get(f, k, initial) == IF k \in DOMAIN f THEN f[k] ELSE initial

Put(f, k, rec, initial) ==
    IF rec # initial THEN (k :> rec) @@ f
    ELSE IF DOMAIN f \subseteq {k} THEN <<>>
    ELSE [x \in DOMAIN f \ {k} |-> f[x]]

\* A thread that does not hold the segment: the pointer the last
\* shared_memory_lock gave it (NULL before the first), the value it is
\* writing, the bytes it has read so far, and the ghost record of its last
\* complete read with the last complete write at that time.
IdleParty == [pc |-> "idle", ptr |-> NULL, v |-> 0, buf |-> <<0, 0>>,
              got |-> <<0, 0>>, expect |-> <<0, 0>>]

\* The addresses malloc hands out for payloads.
Addrs == 1..MaxAddr

\* The record of thread p, and the threads with p's record set.
Party(p) == Get(party, p, IdleParty)

SetParty(p, rec) == Put(party, p, rec, IdleParty)

\* A buffer that is not allocated.
FreeBuffer == [live |-> FALSE, owner |-> "none", bytes |-> <<>>]

\* The buffer at address a of the heap h, and h with that buffer set.
Buffer(h, a) == Get(h, a, FreeBuffer)

SetBuffer(h, a, rec) == Put(h, a, rec, FreeBuffer)

\* A message_t with its payload pointer.
NoPayloadMessage ==
    [type |-> "none", source_node |-> 0, dest_node |-> 0, timestamp |-> 0,
     payload_size |-> 0, payload |-> NULL]

\* The receiving side before a message came: the result of the last
\* distributed_receive_message (out) and, ghost, the message as its sender
\* had it and the bytes of its payload (orig, orig_bytes).
NothingReceived == [pc |-> "idle"]

\* The sending side with no message built.
NothingBuilt == [pc |-> "idle"]

\* A thread outside atom_create; inside, the handle and id it allocated
\* and the counter value it loaded last.
NotCreating == [pc |-> "idle", h |-> NULL, id |-> 0, n |-> 0]

\* The record of thread t, and the threads with t's record set.
Creator(t) == Get(creator, t, NotCreating)

SetCreator(t, rec) == Put(creator, t, rec, NotCreating)

\* The handler outside its loop over the node table; inside, the source it
\* looks for, its index i, the place (at) of the entry whose pointer it
\* loaded, 0 once that entry was freed, and, ghost, the read that went
\* wrong.
NotScanning == [pc |-> "idle", fault |-> "none"]

\* The ghost record of the calls on a distributed_ctx_t: the call, the node
\* id it was given, what it returned, the node table it found (before),
\* and the two calls before it (trail), each with whether the table held
\* its id (had); for a step of the handler thread the message it handled
\* (msg) and the callbacks it called (invoked).
NoCtxCall == [op |-> "none"]

\* The ghost record of the queue calls: the call, its arguments, the
\* queue it found (before), what it returned (result) and, for a receive,
\* the message the kernel took off the queue (taken), the one handed to
\* the caller (got) and whether the call slept in msgrcv (slept).
NoQueueCall == [op |-> "none", size |-> 0, priority |-> 0, timeout_ms |-> 0,
                before |-> <<>>, result |-> 0, taken |-> <<>>, got |-> <<>>,
                out_priority |-> 0, slept |-> FALSE]

\* The sequence s without its first element equal to a.
RECURSIVE RemoveOne(_, _)
RemoveOne(s, a) ==
    IF s = <<>> THEN s
    ELSE IF Head(s) = a THEN Tail(s)
    ELSE <<Head(s)>> \o RemoveOne(Tail(s), a)

\* The ghost record after a caller's atom_release on handle a: one
\* element of the last scan's result given back, or no scan to follow.
AfterRelease(a) ==
    IF last.op \in Scans /\ \E i \in 1..Len(last.pend) : last.pend[i] = a
    THEN [last EXCEPT !.pend = RemoveOne(@, a)]
    ELSE NoCall

\* The ghost record after atom_retain (d = 1) or atom_release (d = -1) on
\* handle a, when runs are followed: the run on a goes on, or one starts.
RunStep(a, d) ==
    IF last.op = "run" /\ last.h = a
    THEN [last EXCEPT !.bal = @ + d,
                      !.low = IF last.bal + d < @ THEN last.bal + d ELSE @]
    ELSE [NoCall EXCEPT !.op = "run", !.h = a,
                        !.rc0 = handles[a].ref_count, !.bal = d,
                        !.low = IF d < 0 THEN d ELSE 0]

(* ------------------------- the lookup table --------------------------- *)

\* The bucket chain of a key: the entries of its bucket, newest first.
Chain(table, key) ==
    SelectSeq(table, LAMBDA e : e.key % HASH_TABLE_SIZE = key % HASH_TABLE_SIZE)

\* hash_table_insert: the new entry becomes the head of its bucket chain.
hash_table_insert(table, key, value) ==
    <<[key |-> key, value |-> value]>> \o table

\* A lookup that takes the head of the bucket without comparing keys.
hash_table_lookup_Head(table, key) ==
    IF Chain(table, key) = <<>> THEN NULL ELSE Chain(table, key)[1].value

\* hash_table_lookup: the first entry of the chain with this key, or NULL.
hash_table_lookup(table, key) ==
    LET hits == SelectSeq(Chain(table, key), LAMBDA e : e.key = key)
    IN  IF hits = <<>> THEN NULL ELSE hits[1].value

(* ---------------------------- construction ---------------------------- *)

\* atomspace_create: calloc'ed space, capacity 1024, empty table.
InitialCapacity == 1024

Init ==
    /\ next_atom_id = 1
    /\ handles = <<>>
    /\ freed = {}
    /\ atoms = [i \in Addr |-> NULL]
    /\ atom_count = 0
    /\ atom_capacity = InitialCapacity
    /\ total_atoms_created = 0
    /\ total_atoms_deleted = 0
    /\ lookup_table = <<>>
    /\ destroyed = FALSE
    /\ fault = FALSE
    /\ held = [a \in Addr |-> 0]
    /\ last = NoCall
    /\ id_mutex = NoThread
    /\ pc = [t \in Threads |-> "idle"]
    /\ local_id = [t \in Threads |-> 0]
    /\ returned = [t \in Threads |-> <<>>]
    /\ consensus = NoConsensus
    /\ cast = <<>>
    /\ kqueue = <<>>
    /\ sent = 0
    /\ mq_last = NoQueueCall
    /\ rcv = [pc |-> "idle", timeout_ms |-> 0]
    /\ running = FALSE
    /\ hb_pc = "none"
    /\ mh = [pc |-> "none", msg |-> NoMessage]
    /\ ctl_pc = "idle"
    /\ nodes = <<>>
    /\ hb_stat = [ticks |-> 0, enqueued |-> 0]
    /\ ctx_last = NoCtxCall
    /\ callbacks = {}
    /\ clock = 0
    /\ shm = [lock |-> 0, data |-> <<0, 0>>, written |-> <<0, 0>>]
    /\ party = <<>>
    /\ heap = <<>>
    /\ tx = NothingBuilt
    /\ rx = NothingReceived
    /\ creator = <<>>
    /\ scan = NotScanning

(* ------------------------------ creation ------------------------------ *)

\* The default truth value, in tenths: strength 1.0, confidence 0.0.
DefaultStrength == 10

DefaultConfidence == 0

\* A create that counts the handle it returns besides the one it stores.
NewRefCount_Two == 1 + 1

\* The reference count atom_create gives a new handle.
NewRefCount == 1

\* The handle and atom atom_create allocates (calloc zeroes the rest).
NewHandle(id, type, name) ==
    [id |-> id, ref_count |-> NewRefCount, type |-> type, name |-> name,
     tv |-> [strength |-> DefaultStrength, confidence |-> DefaultConfidence],
     av |-> [sti |-> 0, lti |-> 0, vlti |-> 0],
     outgoing |-> <<>>, incoming |-> <<>>]

\* The capacity after atom_create's growth check.
GrownCapacity ==
    IF atom_count >= atom_capacity THEN atom_capacity * 2 ELSE atom_capacity

\* atom_create's effect on the space: the handle goes into the next slot
\* and into the lookup table under its id.
StoreHandle(a, id) ==
    /\ atom_capacity' = GrownCapacity
    /\ atoms' = [atoms EXCEPT ![atom_count + 1] = a]
    /\ atom_count' = atom_count + 1
    /\ total_atoms_created' = total_atoms_created + 1
    /\ lookup_table' = hash_table_insert(lookup_table, id, a)
    /\ UNCHANGED <<total_atoms_deleted, destroyed>>

\* atom_create(space, type, name), the whole call.
CreateEffect(type, name) ==
    /\ ~destroyed
    /\ NewAddr \in Addr
    /\ next_atom_id <= MaxId
    /\ next_atom_id' = next_atom_id + 1
    /\ handles' = handles @@ (NewAddr :> NewHandle(next_atom_id, type, name))
    /\ StoreHandle(NewAddr, next_atom_id)
    /\ UNCHANGED <<freed, fault, held, threadVars, distVars>>

atom_create(type, name) == CreateEffect(type, name) /\ last' = NoCall

\* The same call with the ghost record naming the handle it returned.
atom_create_noted(type, name) ==
    /\ atom_count < MaxValueAtoms
    /\ CreateEffect(type, name)
    /\ last' = [NoCall EXCEPT !.op = "create", !.h = NewAddr]

\* The atoms other AtomSpaces of the process create in one go: one short
\* of a table's worth, so that the next id here falls in the bucket of
\* the last one.
ElsewhereBatch == HASH_TABLE_SIZE - 1

\* atom_create on other AtomSpaces of the process: each call draws an id
\* from the same generator and touches nothing of this space.
CreateElsewhere ==
    /\ next_atom_id <= MaxAtoms
    /\ next_atom_id' = next_atom_id + ElsewhereBatch
    /\ last' = NoCall
    /\ UNCHANGED <<handles, freed, spaceVars, fault, held, threadVars, distVars>>

\* A retain that counts twice.
RetainIn_Twice(h, a) == [h EXCEPT ![a].ref_count = @ + 2]

\* atom_retain on one handle of the heap h.
RetainIn(h, a) == [h EXCEPT ![a].ref_count = @ + 1]

\* The loop of atom_create_link over outgoing[i..count]: copy the slot,
\* retain the target, append the link to the target's incoming set.
\* A link creation that records the edges without retaining the targets.
RECURSIVE LinkTargets_NoRetain(_, _, _, _)
LinkTargets_NoRetain(h, link, outgoing, i) ==
    IF i > Len(outgoing) THEN h
    ELSE LET t  == outgoing[i]
             h1 == [h EXCEPT ![link].outgoing = Append(@, t)]
             h3 == [h1 EXCEPT ![t].incoming = Append(@, link)]
         IN  LinkTargets_NoRetain(h3, link, outgoing, i + 1)

RECURSIVE LinkTargets(_, _, _, _)
LinkTargets(h, link, outgoing, i) ==
    IF i > Len(outgoing) THEN h
    ELSE LET t  == outgoing[i]
             h1 == [h EXCEPT ![link].outgoing = Append(@, t)]
             h2 == RetainIn(h1, t)
             h3 == [h2 EXCEPT ![t].incoming = Append(@, link)]
         IN  LinkTargets(h3, link, outgoing, i + 1)

\* The outgoing arrays a caller passes: none, one or two live handles of
\* this space, the same handle twice included.
OutgoingInputs ==
    LET owned == {atoms[i] : i \in 1..atom_count} \cap Live
    IN  {<<>>} \cup {<<t>> : t \in owned} \cup (owned \X owned)

\* atom_create_link(space, type, outgoing, count), the whole call: the
\* targets are used as given, none is looked up in the space.
CreateLinkEffect(type, outgoing) ==
    /\ ~destroyed
    /\ NewAddr \in Addr
    /\ next_atom_id <= MaxId
    /\ next_atom_id' = next_atom_id + 1
    /\ handles' = LinkTargets(
            handles @@ (NewAddr :> NewHandle(next_atom_id, type, NoName)),
            NewAddr, outgoing, 1)
    /\ StoreHandle(NewAddr, next_atom_id)
    /\ UNCHANGED <<freed, fault, held, threadVars, distVars>>

atom_create_link(type, outgoing) ==
    CreateLinkEffect(type, outgoing) /\ last' = NoCall

\* atom_create on another AtomSpace of the process: the atom is in the
\* heap, with the count of its own space, and in no array or table of
\* this space.
CreateForeign(type, name) ==
    /\ NewAddr \in Addr
    /\ Cardinality(Live \ {atoms[i] : i \in 1..atom_count}) < MaxForeign
    /\ next_atom_id <= MaxId
    /\ next_atom_id' = next_atom_id + 1
    /\ handles' = handles @@ (NewAddr :> NewHandle(next_atom_id, type, name))
    /\ last' = NoCall
    /\ UNCHANGED <<freed, spaceVars, fault, held, threadVars, distVars>>

\* The outgoing arrays of a caller that also passes handles it got from
\* another AtomSpace.
AnyOutgoingInputs == {<<t>> : t \in Live} \cup (Live \X Live)

\* atom_create_link with the ghost record naming its arguments and the
\* handle it returned.
atom_create_link_noted(type, outgoing) ==
    /\ CreateLinkEffect(type, outgoing)
    /\ last' = [NoCall EXCEPT !.op = "create_link", !.args = outgoing,
                              !.h = NewAddr]

(* ------------------------ retain and release ------------------------- *)

\* atom_release on the heap st.h: decrement; at zero release every
\* outgoing target, then free the atom and the handle.  Nothing else is
\* touched: not the targets' incoming sets, not the space's array, not the
\* lookup table.  Releasing a freed handle reads freed memory (fault).
RECURSIVE ReleaseIn(_, _)
RECURSIVE ReleaseOutgoing(_, _, _)
\* A reclamation that leaves the outgoing targets' counts alone.
ReleaseOutgoing_None(st, outgoing, i) == st

ReleaseOutgoing(st, outgoing, i) ==
    IF i > Len(outgoing) THEN st
    ELSE ReleaseOutgoing(ReleaseIn(st, outgoing[i]), outgoing, i + 1)

ReleaseIn(st, a) ==
    IF a = NULL THEN st
    ELSE IF a \notin DOMAIN st.h THEN [st EXCEPT !.fault = TRUE]
    ELSE IF st.h[a].ref_count - 1 # 0
         THEN [st EXCEPT !.h[a].ref_count = @ - 1]
    ELSE LET st1 == ReleaseOutgoing(
                        [st EXCEPT !.h[a].ref_count = 0], st.h[a].outgoing, 1)
         IN  [st1 EXCEPT !.h = [b \in DOMAIN st1.h \ {a} |-> st1.h[b]],
                         !.f = @ \cup {a}]

\* The heap as atom_release sees it.
Heap == [h |-> handles, f |-> freed, fault |-> fault]

\* atom_retain(handle) by a caller, on a handle that is not freed.
RetainEffect(a) ==
    /\ a \in Live
    /\ HeldTotal < MaxHeld
    /\ handles' = RetainIn(handles, a)
    /\ held' = [held EXCEPT ![a] = @ + 1]
    /\ UNCHANGED <<next_atom_id, freed, spaceVars, fault, threadVars, distVars>>

atom_retain(a) == RetainEffect(a) /\ last' = NoCall

\* The effect of atom_release(handle) called by a caller.
ReleaseEffect(a) ==
    LET st == ReleaseIn(Heap, a)
    IN  /\ a \in Live
        /\ handles' = st.h
        /\ freed' = st.f
        /\ fault' = st.fault
        /\ held' = [held EXCEPT ![a] = @ - 1]
        /\ UNCHANGED <<next_atom_id, spaceVars, threadVars, distVars>>

\* atom_release(handle) by a caller that gives back a count it took with
\* atom_retain or received in a query result.
atom_release(a) ==
    /\ held[a] > 0
    /\ ReleaseEffect(a)
    /\ last' = AfterRelease(a)

\* atom_release by a caller that gives back a handle it holds: one it
\* retained, or the one the create call returned.
atom_release_held(a) ==
    /\ held[a] >= 0
    /\ ReleaseEffect(a)
    /\ last' = NoCall

\* The same two calls with the ghost record following the run.
RunRetain == \E a \in Addr : RetainEffect(a) /\ last' = RunStep(a, 1)

RunRelease ==
    \E a \in Addr : held[a] > 0 /\ ReleaseEffect(a) /\ last' = RunStep(a, -1)

(* ------------------------------ destroy ------------------------------- *)

\* The loop of atomspace_destroy over atoms[i..atom_count).
RECURSIVE ReleaseSlots(_, _)
ReleaseSlots(st, i) ==
    IF i > atom_count THEN st
    ELSE ReleaseSlots(ReleaseIn(st, atoms[i]), i + 1)

\* atomspace_destroy(space): release every slot, free the array, the
\* table and the space.
DestroyEffect ==
    /\ ~destroyed
    /\ LET st == ReleaseSlots(Heap, 1)
       IN  /\ handles' = st.h
           /\ freed' = st.f
           /\ fault' = st.fault
    /\ atoms' = [i \in Addr |-> NULL]
    /\ atom_count' = 0
    /\ lookup_table' = <<>>
    /\ destroyed' = TRUE
    /\ UNCHANGED <<next_atom_id, atom_capacity, total_atoms_created,
                   total_atoms_deleted, held, threadVars, distVars>>

atomspace_destroy == DestroyEffect /\ last' = NoCall

\* The same call with the ghost record keeping the graph it was called
\* on: the outgoing array of every live atom, and the counts callers held.
atomspace_destroy_noted ==
    /\ DestroyEffect
    /\ last' = [NoCall EXCEPT !.op = "destroy",
                              !.before = [a \in Live |-> handles[a].outgoing],
                              !.count = HeldTotal]

(* ------------------------------ queries ------------------------------- *)

\* atomspace_get_atom(space, id): what the call returns in this state (it
\* changes nothing).
atomspace_get_atom(id) == hash_table_lookup(lookup_table, id)

\* A call of atomspace_get_atom: it reads the table and returns the handle
\* without retaining it.
GetAtomCall(id) ==
    /\ ~destroyed
    /\ last' = [NoCall EXCEPT !.op = "get", !.id = id,
                              !.h = atomspace_get_atom(id)]
    /\ UNCHANGED <<next_atom_id, handles, freed, spaceVars, fault, held,
                   threadVars, distVars>>

\* The ids a caller asks for: those it was given, 0 and one not yet drawn.
GetIds == {lookup_table[i].key : i \in 1..Len(lookup_table)}
             \cup {NULL, next_atom_id}

\* The slots atoms[0..atom_count) in order.
Slots == [i \in 1..atom_count |-> atoms[i]]

\* The slots that point to freed memory.  A scan that reads one reads
\* whatever the freed cell holds: the set stale names the dangling slots
\* whose stale bytes happen to pass the test.
Dangling == {atoms[i] : i \in 1..atom_count} \ (Live \cup {NULL})

\* The tests of the three scans on a slot.
TypeTest(a, type, stale) ==
    a # NULL /\ IF a \in Live THEN handles[a].type = type ELSE a \in stale

\* A name test that forgets the comparison.
NameTest_AnyNamed(a, name, stale) ==
    a # NULL /\ IF a \in Live THEN handles[a].name # NoName ELSE a \in stale

NameTest(a, name, stale) ==
    a # NULL /\ IF a \in Live
                THEN handles[a].name # NoName /\ handles[a].name = name
                ELSE a \in stale

\* The caller's predicate: a pure function of the handle.
Matcher(a, pred) ==
    CASE pred = "is_link" -> handles[a].outgoing # <<>>
      [] pred = "named_a" -> handles[a].name = "a"

PatternTest(a, pred, stale) ==
    a # NULL /\ IF a \in Live THEN Matcher(a, pred) ELSE a \in stale

\* A second pass that retains only the first element it returns.
RetainAll_First(h, result) ==
    [a \in DOMAIN h |->
        [h[a] EXCEPT !.ref_count =
            @ + IF result # <<>> /\ result[1] = a THEN 1 ELSE 0]]

\* atom_retain on every element of a scan's result.
RetainAll(h, result) ==
    [a \in DOMAIN h |->
        [h[a] EXCEPT !.ref_count =
            @ + Cardinality({i \in 1..Len(result) : result[i] = a})]]

\* What a scan does with its result: retain each element, hand the array
\* and the count of the first pass to the caller.
ReturnResult(call, matches, result) ==
    /\ HeldTotal + Len(result) <= MaxHeld
    /\ handles' = RetainAll(handles, result)
    /\ held' = [a \in Addr |->
                  held[a] + Cardinality({i \in 1..Len(result) : result[i] = a})]
    /\ fault' = (fault \/ Dangling # {})
    /\ last' = [call EXCEPT !.out = result, !.count = matches,
                            !.pend = result,
                            !.before = [a \in Live |-> handles[a].ref_count]]
    /\ UNCHANGED <<next_atom_id, freed, spaceVars, threadVars, distVars>>

\* atomspace_get_atoms_by_type(space, type, &count).
atomspace_get_atoms_by_type(type) ==
    /\ ~destroyed
    /\ \E stale \in SUBSET Dangling :
         ReturnResult([NoCall EXCEPT !.op = "by_type", !.kind = type],
            Cardinality({i \in 1..atom_count : TypeTest(atoms[i], type, stale)}),
            SelectSeq(Slots, LAMBDA a : TypeTest(a, type, stale)))

\* atomspace_get_atoms_by_name(space, name, &count), name not NULL.
atomspace_get_atoms_by_name(name) ==
    /\ ~destroyed
    /\ \E stale \in SUBSET Dangling :
         ReturnResult([NoCall EXCEPT !.op = "by_name", !.name = name],
            Cardinality({i \in 1..atom_count : NameTest(atoms[i], name, stale)}),
            SelectSeq(Slots, LAMBDA a : NameTest(a, name, stale)))

\* atomspace_match_pattern(space, matcher, user_data, &count).
atomspace_match_pattern(pred) ==
    /\ ~destroyed
    /\ \E stale \in SUBSET Dangling :
         ReturnResult([NoCall EXCEPT !.op = "match", !.pred = pred],
            Cardinality({i \in 1..atom_count : PatternTest(atoms[i], pred, stale)}),
            SelectSeq(Slots, LAMBDA a : PatternTest(a, pred, stale)))

(* -------------------- truth and attention values --------------------- *)

\* The (strength, confidence) pairs callers pass, in tenths: the tests'
\* (0.8, 0.9), and one above 1.0 with one below 0.0.
TvInputs == { <<8, 9>>, <<15, 0 - 5>> }

INT16_MIN == 0 - 32768

INT16_MAX == 32767

\* The (sti, lti, vlti) triples callers pass: the tests' and the ends of
\* int16_t.
AvInputs == { <<100, 50, 25>>, <<INT16_MIN, INT16_MAX, 0 - 1>> }

\* The ghost record of a getter called on handle a: it keeps what the
\* call before it was when that call created or set the same handle.
NotedGet(a, getter, noted, value) ==
    IF last.op \in noted /\ last.h = a
    THEN [last EXCEPT !.op = last.op \o "+" \o getter, !.out = value]
    ELSE [NoCall EXCEPT !.op = getter, !.h = a, !.out = value]

\* atom_set_tv(handle, strength, confidence).
atom_set_tv(a, strength, confidence) ==
    /\ handles' = IF a = NULL THEN handles
                  ELSE [handles EXCEPT ![a].tv = [strength |-> strength,
                                                 confidence |-> confidence]]
    /\ last' = [NoCall EXCEPT !.op = "set_tv", !.h = a,
                              !.args = <<strength, confidence>>]
    /\ UNCHANGED <<next_atom_id, freed, spaceVars, fault, held, threadVars, distVars>>

\* atom_get_tv(handle).
atom_get_tv(a) ==
    /\ last' = NotedGet(a, "get_tv", {"create", "set_tv"},
                  IF a = NULL THEN <<0, 0>>
                  ELSE <<handles[a].tv.strength, handles[a].tv.confidence>>)
    /\ UNCHANGED <<next_atom_id, handles, freed, spaceVars, fault, held,
                   threadVars, distVars>>

\* atom_set_av(handle, sti, lti, vlti).
atom_set_av(a, sti, lti, vlti) ==
    /\ handles' = IF a = NULL THEN handles
                  ELSE [handles EXCEPT ![a].av = [sti |-> sti, lti |-> lti,
                                                 vlti |-> vlti]]
    /\ last' = [NoCall EXCEPT !.op = "set_av", !.h = a,
                              !.args = <<sti, lti, vlti>>]
    /\ UNCHANGED <<next_atom_id, freed, spaceVars, fault, held, threadVars, distVars>>

\* atom_get_av(handle).
atom_get_av(a) ==
    /\ last' = NotedGet(a, "get_av", {"create", "set_av"},
                  IF a = NULL THEN <<0, 0, 0>>
                  ELSE <<handles[a].av.sti, handles[a].av.lti,
                         handles[a].av.vlti>>)
    /\ UNCHANGED <<next_atom_id, handles, freed, spaceVars, fault, held,
                   threadVars, distVars>>

\* The handles a caller of the setters and getters passes.
ValueHandles == {atoms[i] : i \in 1..atom_count} \cup {NULL}

(* ------------------ generate_atom_id, thread by thread ---------------- *)

\* Everything of the model but the id generator and the threads in it.
restVars == <<handles, freed, spaceVars, fault, held, last, distVars>>

\* A pthread_mutex_lock that does not wait for the holder.
pthread_mutex_lock_NoWait(t) ==
    /\ pc[t] = "idle"
    /\ Len(returned[t]) < MaxCalls
    /\ id_mutex' = t
    /\ pc' = [pc EXCEPT ![t] = "read"]
    /\ UNCHANGED <<next_atom_id, local_id, returned, restVars>>

\* Thread t enters generate_atom_id from atom_create and takes id_mutex.
pthread_mutex_lock(t) ==
    /\ pc[t] = "idle"
    /\ Len(returned[t]) < MaxCalls
    /\ id_mutex = NoThread
    /\ id_mutex' = t
    /\ pc' = [pc EXCEPT ![t] = "read"]
    /\ UNCHANGED <<next_atom_id, local_id, returned, restVars>>

\* id = next_atom_id++, the read of the static.
ReadNextId(t) ==
    /\ pc[t] = "read"
    /\ local_id' = [local_id EXCEPT ![t] = next_atom_id]
    /\ pc' = [pc EXCEPT ![t] = "write"]
    /\ UNCHANGED <<next_atom_id, id_mutex, returned, restVars>>

\* id = next_atom_id++, the write of the static.
WriteNextId(t) ==
    /\ pc[t] = "write"
    /\ next_atom_id' = local_id[t] + 1
    /\ pc' = [pc EXCEPT ![t] = "unlock"]
    /\ UNCHANGED <<id_mutex, local_id, returned, restVars>>

\* pthread_mutex_unlock(&id_mutex); return id.
pthread_mutex_unlock(t) ==
    /\ pc[t] = "unlock"
    /\ id_mutex' = NoThread
    /\ returned' = [returned EXCEPT ![t] = Append(@, local_id[t])]
    /\ pc' = [pc EXCEPT ![t] = "idle"]
    /\ UNCHANGED <<next_atom_id, local_id, restVars>>

(* -------------------------- the message queue ------------------------- *)

\* sizeof(message_t), the unit of the sizes.
Header == 1

\* The bytes in the queue q.
RECURSIVE QueueSize(_)
QueueSize(q) == IF q = <<>> THEN 0 ELSE Head(q).size + QueueSize(Tail(q))

\* msgsnd(mq_id, &msg_buf, size, IPC_NOWAIT) succeeds: the type is
\* positive and the queue has room for size more bytes and one more
\* message; otherwise it fails at once (EINVAL, EAGAIN).
msgsnd_ok(mtype, size) ==
    /\ mtype > 0
    /\ QueueSize(kqueue) + size <= QueueBytes
    /\ Len(kqueue) + 1 <= QueueBytes

\* message_queue_send goes through: the size is within max_message_size
\* and msgsnd succeeds.  max_messages is not looked at.
SendAccepted(size, priority) ==
    /\ size <= MaxMessageSize
    /\ msgsnd_ok(priority + 1, size)

\* The queue after message_queue_send(mq, data, size, priority), data
\* being the bytes of body; seq is the ghost number of the message.
Enqueued(size, priority, seq, body) ==
    IF SendAccepted(size, priority)
    THEN Append(kqueue, [mtype |-> priority + 1, size |-> size,
                         seq |-> seq, body |-> body])
    ELSE kqueue

\* The same for a caller's send, which is numbered.
QueueAfterSend(size, priority, body) ==
    Enqueued(size, priority, sent + 1, body)

\* message_queue_send(mq, data, size, priority) by a caller.
message_queue_send(size, priority, body) ==
    /\ sent < MaxSends
    /\ kqueue' = QueueAfterSend(size, priority, body)
    /\ sent' = sent + 1
    /\ mq_last' = [NoQueueCall EXCEPT
                      !.op = "send", !.size = size, !.priority = priority,
                      !.before = kqueue,
                      !.result = IF SendAccepted(size, priority)
                                 THEN 0 ELSE 0 - 1]
    /\ UNCHANGED <<rcv, atomVars, lateVars, consVars, runVars>>

\* msgrcv(mq_id, &msg_buf, size, 0, flags) on a queue that is not empty:
\* msgtyp 0 takes the first message on the queue, whatever its type.
msgrcv_index(q) == 1

\* The sequence q without its element i.
WithoutIndex(q, i) == SubSeq(q, 1, i - 1) \o SubSeq(q, i + 1, Len(q))

\* What message_queue_receive returns for the message m that msgrcv took:
\* its length if positive, else -1.
ReceiveResult(m) == IF m.size > 0 THEN m.size ELSE 0 - 1

\* The ghost record of a message_queue_receive that took a message off
\* the queue q.
Received(q, timeout_ms) ==
    LET m == q[msgrcv_index(q)]
    IN  [NoQueueCall EXCEPT
            !.op = "receive", !.timeout_ms = timeout_ms, !.before = q,
            !.result = ReceiveResult(m), !.taken = <<m>>,
            !.got = IF m.size > 0 THEN <<m>> ELSE <<>>,
            !.out_priority = IF m.size > 0 THEN m.mtype - 1 ELSE 0]

\* message_queue_receive(mq, buffer, sizeof buffer, &priority, timeout_ms)
\* by a caller, the buffer as large as any message: with a message on the
\* queue it takes one; on an empty queue it returns -1 when timeout_ms is 0
\* and otherwise sleeps in msgrcv, which has no time limit.
message_queue_receive(timeout_ms) ==
    /\ rcv.pc = "idle"
    /\ IF kqueue # <<>>
       THEN /\ kqueue' = WithoutIndex(kqueue, msgrcv_index(kqueue))
            /\ mq_last' = Received(kqueue, timeout_ms)
            /\ rcv' = [pc |-> "idle", timeout_ms |-> timeout_ms]
       ELSE IF timeout_ms = 0
       THEN /\ mq_last' = [NoQueueCall EXCEPT
                              !.op = "receive", !.timeout_ms = timeout_ms,
                              !.result = 0 - 1]
            /\ rcv' = [pc |-> "idle", timeout_ms |-> timeout_ms]
            /\ UNCHANGED kqueue
       ELSE /\ rcv' = [pc |-> "msgrcv", timeout_ms |-> timeout_ms]
            /\ mq_last' = [NoQueueCall EXCEPT
                              !.op = "msgrcv", !.timeout_ms = timeout_ms,
                              !.slept = TRUE]
            /\ UNCHANGED kqueue
    /\ UNCHANGED <<sent, atomVars, lateVars, consVars, runVars>>

\* The caller asleep in msgrcv wakes: a message has arrived.
msgrcv_wake ==
    /\ rcv.pc = "msgrcv"
    /\ kqueue # <<>>
    /\ kqueue' = WithoutIndex(kqueue, msgrcv_index(kqueue))
    /\ mq_last' = [Received(kqueue, rcv.timeout_ms) EXCEPT !.slept = TRUE]
    /\ rcv' = [rcv EXCEPT !.pc = "idle"]
    /\ UNCHANGED <<sent, atomVars, lateVars, consVars, runVars>>

\* The sizes, priorities, bodies and timeouts callers pass.
Sizes == 0..(MaxMessageSize + 1)

Priorities == 0..MaxPriority

Timeouts == {0, 100}

(* ---------------------------- the runtime ----------------------------- *)

\* ctx->this_node_id.
ThisNode == 1

\* The queue after distributed_send_message(ctx, msg): the message_t and
\* its payload are sent with priority 0.  These sends are not numbered.
SentMessage(msg) == Enqueued(Header + msg.payload_size, 0, 0, msg)

\* distributed_send_message(ctx, msg) by a caller.
distributed_send_message(msg) ==
    /\ sent < MaxCallerSends
    /\ kqueue' = SentMessage(msg)
    /\ sent' = sent + 1
    /\ UNCHANGED <<mq_last, rcv, atomVars, lateVars, consVars, runVars>>

\* The messages callers send: a heartbeat of another node and a message
\* for the on_message callback with a payload.
MessageInputs ==
    { [type |-> "HEARTBEAT", source_node |-> 2, dest_node |-> 0,
       timestamp |-> 1, payload_size |-> 0],
      [type |-> "ATOM_CREATE", source_node |-> 2, dest_node |-> ThisNode,
       timestamp |-> 1, payload_size |-> 1] }

\* The entry distributed_add_node allocates.
NewNode(node_id) ==
    [node_id |-> node_id, is_active |-> FALSE, last_heartbeat |-> 0]

\* distributed_add_node(ctx, node_id, hostname, port).
distributed_add_node(node_id) ==
    /\ Len(nodes) < MaxTable
    /\ nodes' = Append(nodes, [node_id |-> node_id, is_active |-> FALSE,
                               last_heartbeat |-> 0])
    /\ UNCHANGED <<running, hb_pc, mh, ctl_pc, hb_stat, atomVars, lateVars, consVars,
                   queueVars>>

\* distributed_start(ctx) up to the first pthread_create: it returns -1
\* when the runtime is running, else sets the flag.
distributed_start ==
    /\ ctl_pc = "idle"
    /\ ~running
    /\ running' = TRUE
    /\ ctl_pc' = "create_heartbeat"
    /\ UNCHANGED <<hb_pc, mh, nodes, hb_stat, atomVars, lateVars, consVars, queueVars>>

\* pthread_create(&ctx->heartbeat_thread, ...), succeeding.
create_heartbeat_thread ==
    /\ ctl_pc = "create_heartbeat"
    /\ hb_pc' = "check"
    /\ ctl_pc' = "create_handler"
    /\ UNCHANGED <<running, mh, nodes, hb_stat, atomVars, lateVars, consVars, queueVars>>

\* pthread_create(&ctx->message_handler_thread, ...), succeeding; return 0.
create_handler_thread ==
    /\ ctl_pc = "create_handler"
    /\ mh' = [mh EXCEPT !.pc = "check"]
    /\ ctl_pc' = "idle"
    /\ UNCHANGED <<running, hb_pc, nodes, hb_stat, atomVars, lateVars, consVars,
                   queueVars>>

\* distributed_stop(ctx) up to the first pthread_join: it returns -1 when
\* the runtime is not running, else clears the flag.
distributed_stop ==
    /\ ctl_pc = "idle"
    /\ running
    /\ running' = FALSE
    /\ ctl_pc' = "join_heartbeat"
    /\ UNCHANGED <<hb_pc, mh, nodes, hb_stat, atomVars, lateVars, consVars, queueVars>>

\* pthread_join(ctx->heartbeat_thread, NULL) returns: the thread is over.
join_heartbeat_thread ==
    /\ ctl_pc = "join_heartbeat"
    /\ hb_pc = "done"
    /\ hb_pc' = "none"
    /\ ctl_pc' = "join_handler"
    /\ UNCHANGED <<running, mh, nodes, hb_stat, atomVars, lateVars, consVars, queueVars>>

\* pthread_join(ctx->message_handler_thread, NULL) returns; return 0.
join_handler_thread ==
    /\ ctl_pc = "join_handler"
    /\ mh.pc = "done"
    /\ mh' = [mh EXCEPT !.pc = "none"]
    /\ ctl_pc' = "idle"
    /\ UNCHANGED <<running, hb_pc, nodes, hb_stat, atomVars, lateVars, consVars,
                   queueVars>>

\* A start that takes every runtime for a stopped one.
AlreadyRunning_Never(flag) == FALSE

\* distributed_start: ctx->running, the test that refuses a second start.
AlreadyRunning(flag) == flag

\* distributed_start(ctx) up to the first pthread_create, with the ghost
\* record: on a running runtime it returns -1 and touches nothing, else it
\* sets the flag and goes on to create the threads.
distributed_start_noted ==
    /\ ctl_pc = "idle"
    /\ IF AlreadyRunning(running)
       THEN /\ ctx_last' = [op |-> "start", result |-> 0 - 1]
            /\ UNCHANGED <<running, ctl_pc>>
       ELSE /\ running' = TRUE
            /\ ctl_pc' = "create_heartbeat"
            /\ ctx_last' = [op |-> "start", result |-> 0]
    /\ UNCHANGED <<atomVars, consVars, queueVars, hb_pc, mh, nodes, hb_stat,
                   callbacks, clock, shmVars, tripVars, raceVars>>

\* pthread_create(&ctx->heartbeat_thread, ...) fails: the flag is cleared,
\* return -1.
create_heartbeat_fails ==
    /\ ctl_pc = "create_heartbeat"
    /\ running' = FALSE
    /\ ctl_pc' = "idle"
    /\ ctx_last' = [op |-> "start_failed", result |-> 0 - 1]
    /\ UNCHANGED <<atomVars, consVars, queueVars, hb_pc, mh, nodes, hb_stat,
                   callbacks, clock, shmVars, tripVars, raceVars>>

\* pthread_create(&ctx->message_handler_thread, ...) fails: the flag is
\* cleared, the heartbeat thread cancelled and joined, return -1.  The
\* thread is cancelled wherever it is (msgsnd and usleep are cancellation
\* points).
create_handler_fails ==
    /\ ctl_pc = "create_handler"
    /\ running' = FALSE
    /\ hb_pc' = "none"
    /\ ctl_pc' = "idle"
    /\ ctx_last' = [op |-> "start_failed", result |-> 0 - 1]
    /\ UNCHANGED <<atomVars, consVars, queueVars, mh, nodes, hb_stat,
                   callbacks, clock, shmVars, tripVars, raceVars>>

\* distributed_stop(ctx) up to the first pthread_join, with the ghost
\* record: on a runtime that is not running it returns -1 and touches
\* nothing, else it clears the flag and goes on to join the threads.
distributed_stop_noted ==
    /\ ctl_pc = "idle"
    /\ IF ~running
       THEN /\ ctx_last' = [op |-> "stop", result |-> 0 - 1]
            /\ UNCHANGED <<running, ctl_pc>>
       ELSE /\ running' = FALSE
            /\ ctl_pc' = "join_heartbeat"
            /\ ctx_last' = [op |-> "stop", result |-> 0]
    /\ UNCHANGED <<atomVars, consVars, queueVars, hb_pc, mh, nodes, hb_stat,
                   callbacks, clock, shmVars, tripVars, raceVars>>

\* heartbeat_thread_func: while (ctx->running).
heartbeat_check ==
    /\ hb_pc = "check"
    /\ hb_pc' = IF running THEN "send" ELSE "done"
    /\ UNCHANGED <<running, mh, ctl_pc, nodes, hb_stat, atomVars, lateVars, consVars,
                   queueVars>>

\* gettimeofday in the heartbeat thread: the time in heartbeat intervals,
\* as far as the thread's sleeps count it.
Now == hb_stat.ticks + 1

\* A heartbeat addressed to the node itself.
HeartbeatMessage_ToSelf ==
    [type |-> "HEARTBEAT", source_node |-> ThisNode, dest_node |-> ThisNode,
     timestamp |-> Now, payload_size |-> 0]

\* The message heartbeat_thread_func builds.
HeartbeatMessage ==
    [type |-> "HEARTBEAT", source_node |-> ThisNode, dest_node |-> 0,
     timestamp |-> Now, payload_size |-> 0]

\* A counter of the ghost record, one more, up to MaxTicks.
Counted(n) == IF n < MaxTicks THEN n + 1 ELSE n

\* heartbeat_thread_func: build the message and send it; the result of the
\* send is not looked at.
heartbeat_send ==
    /\ hb_pc = "send"
    /\ kqueue' = SentMessage(HeartbeatMessage)
    /\ hb_stat' = [hb_stat EXCEPT
                      !.enqueued = IF SendAccepted(Header, 0)
                                   THEN Counted(@) ELSE @]
    /\ hb_pc' = "sleep"
    /\ UNCHANGED <<sent, mq_last, rcv, running, mh, ctl_pc, nodes, atomVars, lateVars,
                   consVars>>

\* heartbeat_thread_func: usleep(HEARTBEAT_INTERVAL_MS * 1000) is over.
heartbeat_sleep ==
    /\ hb_pc = "sleep"
    /\ hb_pc' = "check"
    /\ hb_stat' = [hb_stat EXCEPT !.ticks = Counted(@)]
    /\ UNCHANGED <<running, mh, ctl_pc, nodes, atomVars, lateVars, consVars, queueVars>>

\* message_handler_thread_func: while (ctx->running).
handler_check ==
    /\ mh.pc = "check"
    /\ mh' = [mh EXCEPT !.pc = IF running THEN "receive" ELSE "done"]
    /\ UNCHANGED <<running, hb_pc, ctl_pc, nodes, hb_stat, atomVars, lateVars, consVars,
                   queueVars>>

\* The handler after msgrcv took the message m: distributed_receive_message
\* returns NULL for a length of 0, else the message.
HandlerGot(m) ==
    IF ReceiveResult(m) <= 0
    THEN [pc |-> "check", msg |-> NoMessage]
    ELSE [pc |-> "handle", msg |-> m.body]

\* message_handler_thread_func: distributed_receive_message(ctx, 100).
\* The timeout is not 0, so on an empty queue the thread sleeps in msgrcv.
handler_receive ==
    /\ mh.pc = "receive"
    /\ IF kqueue # <<>>
       THEN /\ kqueue' = WithoutIndex(kqueue, msgrcv_index(kqueue))
            /\ mh' = HandlerGot(kqueue[msgrcv_index(kqueue)])
       ELSE /\ mh' = [mh EXCEPT !.pc = "msgrcv"]
            /\ UNCHANGED kqueue
    /\ UNCHANGED <<sent, mq_last, rcv, running, hb_pc, ctl_pc, nodes, hb_stat,
                   atomVars, lateVars, consVars>>

\* The handler asleep in msgrcv wakes: a message has arrived.
handler_wake ==
    /\ mh.pc = "msgrcv"
    /\ kqueue # <<>>
    /\ kqueue' = WithoutIndex(kqueue, msgrcv_index(kqueue))
    /\ mh' = HandlerGot(kqueue[msgrcv_index(kqueue)])
    /\ UNCHANGED <<sent, mq_last, rcv, running, hb_pc, ctl_pc, nodes, hb_stat,
                   atomVars, lateVars, consVars>>

\* A handler that enters a heartbeat's source into the table when no
\* entry has it.
MarkHeartbeat_Learn(table, source, timestamp) ==
    IF \E i \in 1..Len(table) : table[i].node_id = source
    THEN [i \in 1..Len(table) |->
            IF table[i].node_id = source
            THEN [table[i] EXCEPT !.last_heartbeat = timestamp,
                                  !.is_active = TRUE]
            ELSE table[i]]
    ELSE Append(table, [node_id |-> source, is_active |-> TRUE,
                        last_heartbeat |-> timestamp])

\* The node table after a heartbeat of node source stamped timestamp: the
\* first entry with that id is marked.
RECURSIVE MarkHeartbeat(_, _, _)
MarkHeartbeat(table, source, timestamp) ==
    IF table = <<>> THEN table
    ELSE IF Head(table).node_id = source
    THEN <<[Head(table) EXCEPT !.last_heartbeat = timestamp,
                               !.is_active = TRUE]>> \o Tail(table)
    ELSE <<Head(table)>> \o MarkHeartbeat(Tail(table), source, timestamp)

\* message_handler_thread_func: the switch on msg->type and the free.  The
\* callbacks of the other types touch nothing of the context.
handler_handle ==
    /\ mh.pc = "handle"
    /\ nodes' = IF mh.msg.type = "HEARTBEAT"
                THEN MarkHeartbeat(nodes, mh.msg.source_node, mh.msg.timestamp)
                ELSE nodes
    /\ mh' = [pc |-> "check", msg |-> NoMessage]
    /\ UNCHANGED <<running, hb_pc, ctl_pc, hb_stat, atomVars, lateVars, consVars,
                   queueVars>>

\* The callback fields of the context.
Callbacks == {"on_message", "on_node_join", "on_node_leave"}

\* The application assigns the callback fields of the context (calloc
\* leaves them NULL); it does so before it starts the threads that read
\* them.
set_callbacks(set) ==
    /\ ~running
    /\ ctl_pc = "idle"
    /\ callbacks # set
    /\ callbacks' = set
    /\ UNCHANGED <<atomVars, consVars, queueVars, runVars, ctx_last, clock,
                   shmVars, tripVars, raceVars>>

\* The callbacks the switch on msg->type calls when the fields in set are
\* not NULL.
Invoked(type, set) ==
    CASE type = "HEARTBEAT" -> {}
      [] type = "NODE_JOIN" -> {"on_node_join"} \cap set
      [] type = "NODE_LEAVE" -> {"on_node_leave"} \cap set
      [] OTHER -> {"on_message"} \cap set

\* message_handler_thread_func: the switch on msg->type and the free, with
\* the ghost record of the step.
handler_handle_noted ==
    /\ mh.pc = "handle"
    /\ nodes' = IF mh.msg.type = "HEARTBEAT"
                THEN MarkHeartbeat(nodes, mh.msg.source_node, mh.msg.timestamp)
                ELSE nodes
    /\ mh' = [pc |-> "check", msg |-> NoMessage]
    /\ ctx_last' = [op |-> "handle", id |-> mh.msg.source_node, result |-> 0,
                    before |-> nodes, trail |-> <<>>, msg |-> mh.msg,
                    invoked |-> Invoked(mh.msg.type, callbacks)]
    /\ UNCHANGED <<atomVars, consVars, queueVars, running, hb_pc, ctl_pc,
                   hb_stat, callbacks, clock, shmVars, tripVars, raceVars>>

\* distributed_add_node(ctx, node_id, hostname, port) for one of the peers
\* whose messages reach the handler.
distributed_add_peer(node_id) ==
    /\ Len(nodes) < MaxPeers
    /\ nodes' = Append(nodes, NewNode(node_id))
    /\ UNCHANGED <<atomVars, consVars, queueVars, running, hb_pc, mh, ctl_pc,
                   hb_stat, lateVars>>

\* The messages that reach the handler: heartbeats of two peers, a join, a
\* leave and a message of another kind.
HandlerInputs ==
    MessageInputs \cup
    { [type |-> "HEARTBEAT", source_node |-> 3, dest_node |-> 0,
       timestamp |-> 2, payload_size |-> 0],
      [type |-> "NODE_JOIN", source_node |-> 2, dest_node |-> 0,
       timestamp |-> 1, payload_size |-> 1],
      [type |-> "NODE_LEAVE", source_node |-> 2, dest_node |-> 0,
       timestamp |-> 1, payload_size |-> 1] }

(* ------------------------ heartbeat freshness ------------------------- *)

\* NODE_TIMEOUT_MS in units of HEARTBEAT_INTERVAL_MS (5000 / 1000).
NodeTimeoutTicks == 5

\* The heartbeat a node stamps at the time now.
HeartbeatAt(source, now) ==
    [type |-> "HEARTBEAT", source_node |-> source, dest_node |-> 0,
     timestamp |-> now, payload_size |-> 0]

\* heartbeat_thread_func, one turn of the loop with the time it takes: the
\* heartbeat stamped with the time of day is sent, its result not looked
\* at, and the thread sleeps HEARTBEAT_INTERVAL_MS.  Nothing in the loop
\* reads the node table.
heartbeat_tick ==
    /\ hb_pc = "check"
    /\ running
    /\ clock < MaxClock
    /\ kqueue' = SentMessage(HeartbeatAt(ThisNode, clock))
    /\ clock' = clock + 1
    /\ UNCHANGED <<atomVars, consVars, sent, mq_last, rcv, runVars, ctx_last,
                   callbacks, shmVars, tripVars, raceVars>>

\* A peer's heartbeat, stamped with the time of day, is put on the queue
\* of this node.
peer_heartbeat(source) ==
    /\ sent < MaxPeerBeats
    /\ kqueue' = SentMessage(HeartbeatAt(source, clock))
    /\ sent' = sent + 1
    /\ UNCHANGED <<atomVars, consVars, mq_last, rcv, runVars, lateVars>>

(* --------------------------- shared memory ---------------------------- *)

\* shmat's address of the segment and sizeof(pthread_mutex_t).
ShmAddr == 4096

MutexSize == 40

\* A mutex that is never found held.
MutexFree_Always(lock) == TRUE

\* pthread_mutex_lock goes on when no thread holds the mutex.
MutexFree(lock) == lock = 0

\* shared_memory_lock(shm): pthread_mutex_lock, which waits while another
\* thread holds the mutex, then the address of the payload, which follows
\* the mutex in the segment.
shared_memory_lock(p) ==
    /\ Party(p).pc = "idle"
    /\ MutexFree(shm.lock)
    /\ shm' = [shm EXCEPT !.lock = p]
    /\ party' = SetParty(p, [Party(p) EXCEPT !.pc = "locked",
                              !.ptr = ShmAddr + MutexSize])
    /\ UNCHANGED <<atomVars, consVars, queueVars, runVars, ctx_last,
                   callbacks, clock, tripVars, raceVars>>

\* The holder starts to write v through the pointer: the first byte.
write_first(p, v) ==
    /\ Party(p).pc = "locked"
    /\ shm' = [shm EXCEPT !.data[1] = v]
    /\ party' = SetParty(p, [Party(p) EXCEPT !.pc = "writing", !.v = v])
    /\ UNCHANGED <<atomVars, consVars, queueVars, runVars, ctx_last,
                   callbacks, clock, tripVars, raceVars>>

\* The holder writes the second byte.
write_second(p) ==
    /\ Party(p).pc = "writing"
    /\ shm' = [shm EXCEPT !.data[2] = Party(p).v,
                          !.written = <<Party(p).v, Party(p).v>>]
    /\ party' = SetParty(p, [Party(p) EXCEPT !.pc = "locked"])
    /\ UNCHANGED <<atomVars, consVars, queueVars, runVars, ctx_last,
                   callbacks, clock, tripVars, raceVars>>

\* The holder starts to read through the pointer: the first byte.
read_first(p) ==
    /\ Party(p).pc = "locked"
    /\ party' = SetParty(p, [Party(p) EXCEPT !.pc = "reading",
                              !.buf = <<shm.data[1], 0>>])
    /\ UNCHANGED <<atomVars, consVars, queueVars, runVars, ctx_last,
                   callbacks, clock, shm, tripVars, raceVars>>

\* The holder reads the second byte.
read_second(p) ==
    /\ Party(p).pc = "reading"
    /\ party' = SetParty(p, [Party(p) EXCEPT !.pc = "locked",
                              !.buf = <<0, 0>>,
                              !.got = <<Party(p).buf[1], shm.data[2]>>,
                              !.expect = shm.written])
    /\ UNCHANGED <<atomVars, consVars, queueVars, runVars, ctx_last,
                   callbacks, clock, shm, tripVars, raceVars>>

\* shared_memory_unlock(shm) by the holder: pthread_mutex_unlock.
shared_memory_unlock(p) ==
    /\ Party(p).pc = "locked"
    /\ shm' = [shm EXCEPT !.lock = 0]
    /\ party' = SetParty(p, [Party(p) EXCEPT !.pc = "idle"])
    /\ UNCHANGED <<atomVars, consVars, queueVars, runVars, ctx_last,
                   callbacks, clock, tripVars, raceVars>>

(* ------------------------ message round trip -------------------------- *)

\* The first n of bytes.
Prefix(bytes, n) == SubSeq(bytes, 1, n)

\* distributed_send_message, "Serialize message": the message_t as it is,
\* the sender's payload pointer in it, followed by payload_size bytes of
\* the payload when there is one.
Serialize(msg, h) ==
    [hdr |-> msg,
     bytes |-> IF msg.payload_size > 0 /\ msg.payload # NULL
               THEN Prefix(Buffer(h, msg.payload).bytes, msg.payload_size)
               ELSE <<>>]

\* A receive that keeps the pointer that came over the wire.
Deserialize_KeepPointer(wire, fresh) == wire.hdr

\* distributed_receive_message, "Deserialize message": the message_t as it
\* came, its payload pointer replaced by a new buffer when payload_size is
\* positive and by NULL when not.
Deserialize(wire, fresh) ==
    [wire.hdr EXCEPT !.payload = IF wire.hdr.payload_size > 0
                                 THEN fresh ELSE NULL]

\* The buffer the sender's malloc hands out: the lowest one that is not
\* allocated, NULL when all are.
FirstFree(h) ==
    IF \A a \in Addrs : Buffer(h, a).live THEN NULL
    ELSE CHOOSE a \in Addrs :
            ~Buffer(h, a).live /\ \A b \in Addrs : b < a => Buffer(h, b).live

\* The application builds a message of the given type whose payload is
\* bytes, size of them to be sent; the payload is NULL when there are no
\* bytes.
build_message(type, bytes, size) ==
    /\ tx.pc = "idle"
    /\ sent < MaxTrips
    /\ size <= Len(bytes)
    /\ \A b \in Addrs : ~(Buffer(heap, b).live /\ Buffer(heap, b).owner = "sender")
    /\ LET a == FirstFree(heap)
       IN  /\ a # NULL
           /\ heap' = IF bytes = <<>> THEN heap
                      ELSE SetBuffer(heap, a, [live |-> TRUE,
                                                owner |-> "sender",
                                                bytes |-> bytes])
           /\ tx' = [pc |-> "built", result |-> 0,
                     msg |-> [type |-> type, source_node |-> ThisNode,
                              dest_node |-> 2, timestamp |-> 1,
                              payload_size |-> size,
                              payload |-> IF bytes = <<>> THEN NULL ELSE a]]
    /\ UNCHANGED <<atomVars, consVars, queueVars, runVars, ctx_last,
                   callbacks, clock, shmVars, rx, raceVars>>

\* distributed_send_message(ctx, msg) for the message built: serialize,
\* message_queue_send with priority 0, free the wire buffer, return the
\* result.
send_built ==
    /\ tx.pc = "built"
    /\ kqueue' = Enqueued(Header + tx.msg.payload_size, 0, 0,
                          [wire |-> Serialize(tx.msg, heap),
                           orig |-> tx.msg,
                           orig_bytes |-> IF tx.msg.payload = NULL THEN <<>>
                                          ELSE Buffer(heap, tx.msg.payload).bytes])
    /\ tx' = [tx EXCEPT !.pc = "sent",
                        !.result = IF SendAccepted(Header + tx.msg.payload_size, 0)
                                   THEN 0 ELSE 0 - 1]
    /\ sent' = sent + 1
    /\ UNCHANGED <<atomVars, consVars, mq_last, rcv, runVars, ctx_last,
                   callbacks, clock, shmVars, heap, rx, raceVars>>

\* The sender is done with its message: it frees the payload, or keeps it.
release_payload(free) ==
    /\ tx.pc = "sent"
    /\ heap' = IF free /\ tx.msg.payload # NULL
               THEN SetBuffer(heap, tx.msg.payload, FreeBuffer)
               ELSE heap
    /\ tx' = NothingBuilt
    /\ UNCHANGED <<atomVars, consVars, queueVars, runVars, ctx_last,
                   callbacks, clock, shmVars, rx, raceVars>>

\* A payload the sender kept, which it frees later.
drop_payload(a) ==
    /\ Buffer(heap, a).live
    /\ Buffer(heap, a).owner = "sender"
    /\ tx.pc = "idle"
    /\ rx.pc = "idle"
    /\ heap' = SetBuffer(heap, a, FreeBuffer)
    /\ UNCHANGED <<atomVars, consVars, queueVars, runVars, ctx_last,
                   callbacks, clock, shmVars, tx, rx, raceVars>>

\* distributed_receive_message(ctx, 0): NULL when message_queue_receive
\* gives no message, else the message deserialized; malloc gives a buffer
\* that is not allocated.
receive_message(a) ==
    /\ rx.pc = "idle"
    /\ ~Buffer(heap, a).live
    /\ IF kqueue = <<>>
       THEN /\ rx' = [pc |-> "null"]
            /\ UNCHANGED <<kqueue, heap>>
       ELSE LET m == kqueue[msgrcv_index(kqueue)]
                out == Deserialize(m.body.wire, a)
            IN  /\ kqueue' = WithoutIndex(kqueue, msgrcv_index(kqueue))
                /\ rx' = [pc |-> "received", out |-> out,
                          orig |-> m.body.orig,
                          orig_bytes |-> m.body.orig_bytes]
                /\ heap' = IF m.body.wire.hdr.payload_size > 0
                           THEN SetBuffer(heap, a, [live |-> TRUE, owner |-> "receiver",
                                    bytes |-> Prefix(m.body.wire.bytes,
                                                m.body.wire.hdr.payload_size)])
                           ELSE heap
    /\ UNCHANGED <<atomVars, consVars, sent, mq_last, rcv, runVars, ctx_last,
                   callbacks, clock, shmVars, tx, raceVars>>

\* distributed_free_message(msg) on what was received (or nothing, for
\* NULL).
distributed_free_message ==
    /\ rx.pc \in {"received", "null"}
    /\ heap' = IF rx.pc = "received" /\ rx.out.payload # NULL
                  /\ Buffer(heap, rx.out.payload).owner = "receiver"
               THEN SetBuffer(heap, rx.out.payload, FreeBuffer)
               ELSE heap
    /\ rx' = NothingReceived
    /\ UNCHANGED <<atomVars, consVars, queueVars, runVars, ctx_last,
                   callbacks, clock, shmVars, tx, raceVars>>

(* ------------------ atom_create from several threads ------------------ *)

\* atom_create by thread t up to "Add to atomspace": the atom and the
\* handle are allocated, the id drawn from the generator under its mutex.
create_alloc(t, type, name) ==
    /\ Creator(t).pc = "idle"
    /\ ~destroyed
    /\ NewAddr \in Addr
    /\ next_atom_id <= MaxId
    /\ next_atom_id' = next_atom_id + 1
    /\ handles' = handles @@ (NewAddr :> NewHandle(next_atom_id, type, name))
    /\ creator' = SetCreator(t, [pc |-> "load", h |-> NewAddr,
                                          id |-> next_atom_id, n |-> 0])
    /\ UNCHANGED <<freed, spaceVars, fault, held, last, threadVars, consVars,
                   queueVars, runVars, ctx_last, callbacks, clock, shmVars,
                   tripVars, scan>>

\* space->atom_count is loaded, for the growth check and as the index.
create_load(t) ==
    /\ Creator(t).pc = "load"
    /\ atom_capacity' = GrownCapacity
    /\ creator' = SetCreator(t, [Creator(t) EXCEPT !.pc = "store", !.n = atom_count])
    /\ UNCHANGED <<next_atom_id, handles, freed, atoms, atom_count,
                   total_atoms_created, total_atoms_deleted, lookup_table,
                   destroyed, fault, held, last, threadVars, consVars,
                   queueVars, runVars, ctx_last, callbacks, clock, shmVars,
                   tripVars, scan>>

\* space->atoms[space->atom_count++] = handle, with the count loaded.
create_store(t) ==
    /\ Creator(t).pc = "store"
    /\ atoms' = [atoms EXCEPT ![Creator(t).n + 1] = Creator(t).h]
    /\ atom_count' = Creator(t).n + 1
    /\ creator' = SetCreator(t, [Creator(t) EXCEPT !.pc = "total"])
    /\ UNCHANGED <<next_atom_id, handles, freed, atom_capacity,
                   total_atoms_created, total_atoms_deleted, lookup_table,
                   destroyed, fault, held, last, threadVars, consVars,
                   queueVars, runVars, ctx_last, callbacks, clock, shmVars,
                   tripVars, scan>>

\* space->total_atoms_created++: the load.
create_total_load(t) ==
    /\ Creator(t).pc = "total"
    /\ creator' = SetCreator(t, [Creator(t) EXCEPT !.pc = "total_store",
                                  !.n = total_atoms_created])
    /\ UNCHANGED <<atomVars, consVars, queueVars, runVars, ctx_last,
                   callbacks, clock, shmVars, tripVars, scan>>

\* space->total_atoms_created++: the store.
create_total_store(t) ==
    /\ Creator(t).pc = "total_store"
    /\ total_atoms_created' = Creator(t).n + 1
    /\ creator' = SetCreator(t, [Creator(t) EXCEPT !.pc = "insert"])
    /\ UNCHANGED <<next_atom_id, handles, freed, atoms, atom_count,
                   atom_capacity, total_atoms_deleted, lookup_table,
                   destroyed, fault, held, last, threadVars, consVars,
                   queueVars, runVars, ctx_last, callbacks, clock, shmVars,
                   tripVars, scan>>

\* hash_table_insert under the table's lock; return handle.
create_insert(t) ==
    /\ Creator(t).pc = "insert"
    /\ lookup_table' = hash_table_insert(lookup_table, Creator(t).id,
                                         Creator(t).h)
    /\ creator' = SetCreator(t, NotCreating)
    /\ UNCHANGED <<next_atom_id, handles, freed, atoms, atom_count,
                   atom_capacity, total_atoms_created, total_atoms_deleted,
                   destroyed, fault, held, last, threadVars, consVars,
                   queueVars, runVars, ctx_last, callbacks, clock, shmVars,
                   tripVars, scan>>

(* --------------------------- the node table --------------------------- *)

\* The ids callers pass to distributed_add_node and distributed_remove_node.
TableIds == 1..(MaxNodes + 1)

\* The index of the first entry of table with the id, 0 when none has it:
\* the loop of distributed_remove_node.
NodeIndex(table, node_id) ==
    IF \E i \in 1..Len(table) : table[i].node_id = node_id
    THEN CHOOSE i \in 1..Len(table) :
            /\ table[i].node_id = node_id
            /\ \A j \in 1..(i - 1) : table[j].node_id # node_id
    ELSE 0

\* A shift that closes the table at its end, whatever the index found.
ShiftedTable_DropLast(table, i) == SubSeq(table, 1, Len(table) - 1)

\* The table after entry i is freed and the entries after it are shifted
\* down by one.
ShiftedTable(table, i) == WithoutIndex(table, i)

\* The ghost record of a call op(node_id) that returned result.
NotedCall(op, node_id, result) ==
    [op |-> op, id |-> node_id, result |-> result, before |-> nodes,
     msg |-> NoMessage, invoked |-> {},
     trail |-> IF ctx_last.op = "none" THEN <<>>
               ELSE (IF ctx_last.trail = <<>> THEN <<>>
                     ELSE <<ctx_last.trail[Len(ctx_last.trail)]>>)
                    \o <<[op |-> ctx_last.op, id |-> ctx_last.id,
                          result |-> ctx_last.result,
                          had |-> NodeIndex(ctx_last.before, ctx_last.id) # 0]>>]

\* distributed_add_node(ctx, node_id, hostname, port) with the ghost record:
\* the entry is appended, whatever the table holds; the call returns 0.
distributed_add_node_noted(node_id) ==
    /\ Len(nodes) < MaxEntries
    /\ nodes' = Append(nodes, NewNode(node_id))
    /\ ctx_last' = NotedCall("add_node", node_id, 0)
    /\ UNCHANGED <<atomVars, consVars, queueVars, running, hb_pc, mh, ctl_pc,
                   hb_stat, callbacks, clock, shmVars, tripVars, raceVars>>

\* distributed_remove_node(ctx, node_id): the first entry with the id is
\* freed and the table closed over it, return 0; -1 when no entry has it.
distributed_remove_node(node_id) ==
    /\ LET i == NodeIndex(nodes, node_id)
       IN  /\ nodes' = IF i = 0 THEN nodes ELSE ShiftedTable(nodes, i)
           /\ ctx_last' = NotedCall("remove_node", node_id,
                                    IF i = 0 THEN 0 - 1 ELSE 0)
    /\ UNCHANGED <<atomVars, consVars, queueVars, running, hb_pc, mh, ctl_pc,
                   hb_stat, callbacks, clock, shmVars, tripVars, raceVars>>

(* --------------- the node table under the handler's loop --------------- *)

\* The handler has a heartbeat of node source in hand and enters its loop
\* over the node table.
scan_begin(source) ==
    /\ scan.pc = "idle"
    /\ scan' = [pc |-> "test", fault |-> "none", source |-> source,
                i |-> 1, at |-> 0]
    /\ UNCHANGED <<atomVars, consVars, queueVars, runVars, ctx_last,
                   callbacks, clock, shmVars, tripVars, creator>>

\* i < ctx->node_count.
scan_test ==
    /\ scan.pc = "test"
    /\ scan' = IF scan.i <= Len(nodes) THEN [scan EXCEPT !.pc = "load"]
               ELSE NotScanning
    /\ UNCHANGED <<atomVars, consVars, queueVars, runVars, ctx_last,
                   callbacks, clock, shmVars, tripVars, creator>>

\* ctx->nodes[i] is loaded: the pointer to the entry, or what a slot at or
\* above node_count holds when the table shrank after the test.
scan_load ==
    /\ scan.pc = "load"
    /\ scan' = IF scan.i <= Len(nodes)
               THEN [scan EXCEPT !.pc = "deref", !.at = scan.i]
               ELSE [NotScanning EXCEPT !.fault = "slot"]
    /\ UNCHANGED <<atomVars, consVars, queueVars, runVars, ctx_last,
                   callbacks, clock, shmVars, tripVars, creator>>

\* ->node_id is read through the pointer and compared; on a match the
\* entry is marked and the loop left.  The entry may have been freed since
\* its pointer was loaded.
scan_deref ==
    /\ scan.pc = "deref"
    /\ IF scan.at = 0
       THEN /\ scan' = [NotScanning EXCEPT !.fault = "freed"]
            /\ UNCHANGED nodes
       ELSE IF nodes[scan.at].node_id = scan.source
       THEN /\ nodes' = [nodes EXCEPT ![scan.at].is_active = TRUE,
                                      ![scan.at].last_heartbeat = 1]
            /\ scan' = NotScanning
       ELSE /\ scan' = [scan EXCEPT !.pc = "test", !.i = scan.i + 1, !.at = 0]
            /\ UNCHANGED nodes
    /\ UNCHANGED <<atomVars, consVars, queueVars, running, hb_pc, mh, ctl_pc,
                   hb_stat, ctx_last, callbacks, clock, shmVars, tripVars,
                   creator>>

\* The entry a pointer of the handler leads to after the entry at index i
\* was freed and the table closed over it: none when it was that entry.
PointerAfterRemove(at, i) ==
    IF i = 0 \/ at = 0 THEN at
    ELSE IF at = i THEN 0
    ELSE IF at > i THEN at - 1
    ELSE at

\* distributed_remove_node(ctx, node_id) by an application thread while
\* the handler may be inside its loop: no lock is taken.
distributed_remove_node_racing(node_id) ==
    /\ LET i == NodeIndex(nodes, node_id)
       IN  /\ nodes' = IF i = 0 THEN nodes ELSE ShiftedTable(nodes, i)
           /\ scan' = IF scan.pc = "deref"
                      THEN [scan EXCEPT !.at = PointerAfterRemove(scan.at, i)]
                      ELSE scan
    /\ UNCHANGED <<atomVars, consVars, queueVars, running, hb_pc, mh, ctl_pc,
                   hb_stat, ctx_last, callbacks, clock, shmVars, tripVars,
                   creator>>

(* ----------------------------- consensus ------------------------------ *)

CONSENSUS_PROPOSE == 0

CONSENSUS_ACCEPT == 1

CONSENSUS_REJECT == 2

CONSENSUS_COMMIT == 3

\* consensus_create(proposal_data, size, required_votes): the record it
\* returns; voted_nodes is calloc'd, one slot per required vote.
consensus_create(required_votes) ==
    /\ consensus = NoConsensus
    /\ consensus' = [phase |-> CONSENSUS_PROPOSE,
                     voted_nodes |-> [i \in 1..required_votes |-> 0],
                     vote_count |-> 0,
                     required_votes |-> required_votes]
    /\ UNCHANGED <<cast, atomVars, lateVars, queueVars, runVars>>

\* A vote that records the voter and counts it, without looking for an
\* earlier vote of the same node.
VotedRecord_Counting(c, node, accept) ==
    IF accept /\ c.vote_count < c.required_votes
    THEN [c EXCEPT !.voted_nodes[c.vote_count + 1] = node,
                   !.vote_count = @ + 1,
                   !.phase = IF c.vote_count + 1 >= c.required_votes
                             THEN CONSENSUS_COMMIT ELSE CONSENSUS_ACCEPT]
    ELSE c

\* The record after consensus_vote(ctx, consensus, accept) called on node
\* ctx->this_node_id: the function returns 0 and writes nothing.
VotedRecord(c, node, accept) == c

\* consensus_vote(ctx, consensus, accept), ctx->this_node_id = node.
consensus_vote(node, accept) ==
    /\ consensus # NoConsensus
    /\ Len(cast) < MaxCast
    /\ consensus' = VotedRecord(consensus, node, accept)
    /\ cast' = Append(cast, [node |-> node, accept |-> accept])
    /\ UNCHANGED <<atomVars, lateVars, queueVars, runVars>>

\* consensus_is_committed(consensus).
consensus_is_committed ==
    /\ consensus.phase = CONSENSUS_COMMIT
    /\ consensus.vote_count >= consensus.required_votes

\* consensus_destroy(consensus).
consensus_destroy ==
    /\ consensus # NoConsensus
    /\ consensus' = NoConsensus
    /\ cast' = <<>>
    /\ UNCHANGED <<atomVars, lateVars, queueVars, runVars>>

(* --------------------------- specifications --------------------------- *)

Create == \E in \in NodeInputs : atom_create(in[1], in[2])

CreateLink == \E out \in OutgoingInputs : atom_create_link(ATOM_TYPE_LINK, out)

Retain == \E a \in Addr : atom_retain(a)

Release == \E a \in Addr : atom_release(a)

ByType == \E type \in Kinds : atomspace_get_atoms_by_type(type)

ByName == \E name \in Names : atomspace_get_atoms_by_name(name)

Match == \E pred \in Predicates : atomspace_match_pattern(pred)

Destroy == atomspace_destroy

\* One thread calling the AtomSpace API; callers release only counts they
\* took with atom_retain or received from a query.
Next ==
    \/ Create
    \/ CreateLink
    \/ Retain
    \/ Release
    \/ ByType
    \/ ByName
    \/ Match
    \/ Destroy

Spec == Init /\ [][Next]_vars

\* The same caller, with the ghost record following its runs of
\* atom_retain / atom_release calls on one handle.
NextRuns ==
    \/ Create
    \/ CreateLink
    \/ RunRetain
    \/ RunRelease
    \/ Destroy

SpecRuns == Init /\ [][NextRuns]_vars

ReleaseHeld == \E a \in Addr : atom_release_held(a)

GetAtom == \E id \in GetIds : GetAtomCall(id)

\* A caller that also releases, once, the handle a create call returned,
\* while other AtomSpaces of the process create atoms of their own.
NextRelease ==
    \/ Create
    \/ CreateLink
    \/ CreateElsewhere
    \/ ReleaseHeld
    \/ GetAtom

SpecRelease == Init /\ [][NextRelease]_vars

CreateNoted == \E in \in NodeInputs : atom_create_noted(in[1], in[2])

SetTv ==
    \E a \in ValueHandles : \E v \in TvInputs : atom_set_tv(a, v[1], v[2])

GetTv == \E a \in ValueHandles : atom_get_tv(a)

SetAv ==
    \E a \in ValueHandles : \E v \in AvInputs : atom_set_av(a, v[1], v[2], v[3])

GetAv == \E a \in ValueHandles : atom_get_av(a)

\* A caller creating atoms and setting and reading their values.
NextValues ==
    \/ CreateNoted
    \/ SetTv
    \/ GetTv
    \/ SetAv
    \/ GetAv

SpecValues == Init /\ [][NextValues]_vars

DestroyNoted == atomspace_destroy_noted

\* A caller that builds a graph, retains and releases, and destroys the
\* space.
NextDestroy ==
    \/ Create
    \/ CreateLink
    \/ Retain
    \/ Release
    \/ DestroyNoted

SpecDestroy == Init /\ [][NextDestroy]_vars

Foreign == \E in \in NodeInputs : CreateForeign(in[1], in[2])

CreateLinkNoted ==
    \E out \in AnyOutgoingInputs : atom_create_link_noted(ATOM_TYPE_LINK, out)

\* A caller of two AtomSpaces that passes handles of either to
\* atom_create_link on this one.
NextLink ==
    \/ Create
    \/ Foreign
    \/ CreateLinkNoted

SpecLink == Init /\ [][NextLink]_vars

QueueSend ==
    \E size \in Sizes : \E priority \in Priorities :
        message_queue_send(size, priority, NoMessage)

QueueReceive == \E timeout_ms \in Timeouts : message_queue_receive(timeout_ms)

QueueWake == msgrcv_wake

\* Processes sending to one queue and one receiving from it.
NextQueue ==
    \/ QueueSend
    \/ QueueReceive
    \/ QueueWake

SpecQueue == Init /\ [][NextQueue]_vars

SendMessage == \E msg \in MessageInputs : distributed_send_message(msg)

AddNode == \E n \in NodeIds : distributed_add_node(n)

Start == distributed_start \/ create_heartbeat_thread \/ create_handler_thread

Stop == distributed_stop

Join == join_heartbeat_thread \/ join_handler_thread

HeartbeatThread == heartbeat_check \/ heartbeat_send \/ heartbeat_sleep

HandlerThread ==
    handler_check \/ handler_receive \/ handler_wake \/ handler_handle

\* One node: a caller that adds nodes, sends, starts and stops the
\* runtime, and the two threads of the runtime.
NextRuntime ==
    \/ SendMessage
    \/ AddNode
    \/ Start
    \/ Stop
    \/ Join
    \/ HeartbeatThread
    \/ HandlerThread

SpecRuntime == Init /\ [][NextRuntime]_vars

\* The same with the scheduler running every thread that can take a step:
\* the two workers and the caller inside start or stop.  Nothing makes a
\* caller send or call start or stop.
SpecRuntimeFair ==
    /\ SpecRuntime
    /\ WF_vars(HeartbeatThread)
    /\ WF_vars(HandlerThread)
    /\ WF_vars(Join)
    /\ WF_vars(create_heartbeat_thread \/ create_handler_thread)

\* The queue with the kernel waking a receiver asleep in msgrcv whenever
\* a message is on the queue.  Nothing makes a process send.
SpecQueueFair == SpecQueue /\ WF_vars(QueueWake)

AddNodeNoted == \E n \in TableIds : distributed_add_node_noted(n)

RemoveNode == \E n \in TableIds : distributed_remove_node(n)

\* A caller that adds and removes nodes.
NextNodes ==
    \/ AddNodeNoted
    \/ RemoveNode

SpecNodes == Init /\ [][NextNodes]_vars

SetCallbacks == \E set \in SUBSET Callbacks : set_callbacks(set)

SendAny == \E msg \in HandlerInputs : distributed_send_message(msg)

\* The nodes that send the messages of HandlerInputs.
PeerIds == {msg.source_node : msg \in HandlerInputs}

AddPeer == \E n \in PeerIds : distributed_add_peer(n)

HandlerThreadNoted ==
    handler_check \/ handler_receive \/ handler_wake \/ handler_handle_noted

\* The handler thread at work: a caller sets the callbacks, adds nodes,
\* starts the runtime and sends messages of every kind.
NextHandler ==
    \/ SetCallbacks
    \/ AddPeer
    \/ Start
    \/ SendAny
    \/ HandlerThreadNoted

SpecHandler == Init /\ [][NextHandler]_vars

StartNoted ==
    \/ distributed_start_noted
    \/ create_heartbeat_thread
    \/ create_handler_thread
    \/ create_heartbeat_fails
    \/ create_handler_fails

StopNoted == distributed_stop_noted

\* One application thread that starts and stops the runtime in any order,
\* and the two threads of the runtime.
NextLifecycle ==
    \/ StartNoted
    \/ StopNoted
    \/ Join
    \/ HeartbeatThread
    \/ HandlerThread

SpecLifecycle == Init /\ [][NextLifecycle]_vars

PeerHeartbeat == \E n \in NodeIds : peer_heartbeat(n)

\* The runtime with the time of day: a known peer whose heartbeats arrive
\* and then stop, the heartbeat thread turning once per interval, and the
\* handler thread.
NextFreshness ==
    \/ AddNode
    \/ Start
    \/ PeerHeartbeat
    \/ heartbeat_tick
    \/ HandlerThread

SpecFreshness == Init /\ [][NextFreshness]_vars

ShmLock == \E p \in Parties : shared_memory_lock(p)

ShmWrite ==
    \E p \in Parties : (\E v \in 1..MaxValue : write_first(p, v)) \/ write_second(p)

ShmRead == \E p \in Parties : read_first(p) \/ read_second(p)

ShmUnlock == \E p \in Parties : shared_memory_unlock(p)

\* Threads that lock the segment, write and read its payload while they
\* hold it, and unlock it.
NextShm ==
    \/ ShmLock
    \/ ShmWrite
    \/ ShmRead
    \/ ShmUnlock

SpecShm == Init /\ [][NextShm]_vars

\* The payloads a sender builds: up to MaxPayload bytes, counting up or
\* counting down.
Payloads ==
    UNION {{[i \in 1..n |-> i], [i \in 1..n |-> n + 1 - i]} : n \in 0..MaxPayload}

BuildMessage ==
    \E type \in {"ATOM_CREATE", "SYNC_REQUEST"}, bytes \in Payloads,
       size \in 0..MaxPayload :
        build_message(type, bytes, size)

ReleasePayload ==
    \/ \E free \in BOOLEAN : release_payload(free)
    \/ \E a \in Addrs : drop_payload(a)

ReceiveMessage == \E a \in Addrs : receive_message(a)

\* A sender that builds and sends messages and a receiver that takes them
\* off the queue.
NextRoundTrip ==
    \/ BuildMessage
    \/ send_built
    \/ ReleasePayload
    \/ ReceiveMessage
    \/ distributed_free_message

SpecRoundTrip == Init /\ [][NextRoundTrip]_vars

CreateRacing ==
    \E t \in Threads :
        \/ create_alloc(t, ATOM_TYPE_CONCEPT, "a")
        \/ create_load(t)
        \/ create_store(t)
        \/ create_total_load(t)
        \/ create_total_store(t)
        \/ create_insert(t)

\* Threads that call atom_create on one AtomSpace at the same time.
NextCreateRace == CreateRacing

SpecCreateRace == Init /\ [][NextCreateRace]_vars

ScanTable == (\E n \in PeerIds : scan_begin(n)) \/ scan_test \/ scan_load \/ scan_deref

RemoveRacing == \E n \in PeerIds : distributed_remove_node_racing(n)

\* The handler in its loop over the node table while an application
\* thread adds and removes nodes.
NextTableRace ==
    \/ AddPeer
    \/ RemoveRacing
    \/ ScanTable

SpecTableRace == Init /\ [][NextTableRace]_vars

ConsensusCreate == \E r \in 1..MaxNodes : consensus_create(r)

ConsensusVote ==
    \E n \in NodeIds : \E accept \in BOOLEAN : consensus_vote(n, accept)

ConsensusDestroy == consensus_destroy

\* The nodes of a cluster voting on one consensus record after another.
NextConsensus ==
    \/ ConsensusCreate
    \/ ConsensusVote
    \/ ConsensusDestroy

SpecConsensus == Init /\ [][NextConsensus]_vars

Lock == \E t \in Threads : pthread_mutex_lock(t)

ReadId == \E t \in Threads : ReadNextId(t)

WriteId == \E t \in Threads : WriteNextId(t)

Unlock == \E t \in Threads : pthread_mutex_unlock(t)

\* Threads creating atoms concurrently, on whichever AtomSpaces: the steps
\* of generate_atom_id interleaved.
NextIds ==
    \/ Lock
    \/ ReadId
    \/ WriteId
    \/ Unlock

SpecIds == Init /\ [][NextIds]_vars

(* ------------------------- what the claims read ----------------------- *)

\* The number of slots of the sequence s that hold x.
CountIn(s, x) == Cardinality({i \in 1..Len(s) : s[i] = x})

\* The handles in the space's array.
InSpace == {atoms[i] : i \in 1..atom_count} \ {NULL}

\* The outgoing slots of live links that point to handle a.
LinkSlots(a) ==
    SumTo([l \in Addr |->
              IF l \in Live THEN CountIn(handles[l].outgoing, a) ELSE 0],
          MaxAtoms)

\* The count the AtomSpace itself holds on each of its handles.
SpaceCount == IF destroyed THEN 0 ELSE 1

(* -------------------------------- C1 ---------------------------------- *)

\* C1: edge symmetry.  Every target of a live link is live and lists the
\* link in its incoming set once per outgoing slot; every handle in a live
\* atom's incoming set is a live link whose outgoing set contains the atom
\* (so a reclaimed link is in no live atom's incoming set).
C1_EdgeSymmetry ==
    \A l \in Live :
        /\ \A i \in 1..Len(handles[l].outgoing) :
              LET t == handles[l].outgoing[i]
              IN  /\ t \in Live
                  /\ CountIn(handles[t].incoming, l)
                        = CountIn(handles[l].outgoing, t)
        /\ \A j \in 1..Len(handles[l].incoming) :
              LET from == handles[l].incoming[j]
              IN  /\ from \in Live
                  /\ CountIn(handles[from].outgoing, l) > 0

(* -------------------------------- C5 ---------------------------------- *)

Elems(s) == {s[i] : i \in 1..Len(s)}

\* The atoms of the space the last by_type / by_name call asked for.
Wanted ==
    {a \in InSpace :
        CASE last.op = "by_type" -> handles[a].type = last.kind
          [] last.op = "by_name" ->
                handles[a].name # NoName /\ handles[a].name = last.name
          [] OTHER -> FALSE}

\* C8: by_type(k) and by_name(n) return exactly the atoms of the space
\* with kind k, or with a name equal to n, each once, in creation order
\* (ids grow with creation), and the count returned is their number.
C8_QueryResult ==
    last.op \in {"by_type", "by_name"} =>
        /\ Elems(last.out) = Wanted
        /\ Len(last.out) = Cardinality(Wanted)
        /\ last.count = Cardinality(Wanted)
        /\ \A i, j \in 1..Len(last.out) :
              i < j => handles[last.out[i]].id < handles[last.out[j]].id

\* by_name returned two atoms and left out a nameless one.
C8_Witness ==
    /\ last.op = "by_name"
    /\ Len(last.out) = 2
    /\ \E a \in InSpace \ Elems(last.out) : handles[a].name = NoName

(* -------------------------------- C7 ---------------------------------- *)

\* C7: after a run of atom_retain and atom_release calls on one live
\* handle with as many retains as releases, in whatever order, the
\* reference count is what it was before the run and the atom is live.
C7_BalancedRun ==
    (last.op = "run" /\ last.bal = 0) =>
        /\ last.h \in Live
        /\ handles[last.h].ref_count = last.rc0

\* A balanced run that began with a release.
C7_Witness ==
    last.op = "run" /\ last.bal = 0 /\ last.low < 0 /\ last.h \in Live

(* -------------------------------- C9 ---------------------------------- *)

\* The step is a call of by_type, by_name or match.
ScanStep ==
    /\ last'.op \in Scans
    /\ last'.pend = last'.out
    /\ held' # held \/ last'.out = <<>>

\* C9: a scan adds exactly 1 to the reference count of each handle it
\* returns and changes nothing else: no other reference count, no other
\* field of any atom, not the space's array, counters or lookup table;
\* and once the caller has released each returned element once, every
\* reference count is what it was before the scan.
C9_ScanFrame ==
    [][ /\ ScanStep =>
            /\ DOMAIN handles' = DOMAIN handles
            /\ \A a \in Live :
                  /\ CountIn(last'.out, a) <= 1
                  /\ handles'[a] = [handles[a] EXCEPT !.ref_count =
                                       @ + CountIn(last'.out, a)]
            /\ Elems(last'.out) \subseteq Live
            /\ UNCHANGED <<spaceVars, freed, next_atom_id>>
        /\ (last'.op \in Scans /\ last'.pend = <<>>) =>
            \A a \in DOMAIN last'.before :
                /\ a \in DOMAIN handles'
                /\ handles'[a].ref_count = last'.before[a]
      ]_vars

\* A match that returned two handles and left one out, both given back.
C9_Witness ==
    /\ last.op = "match"
    /\ Len(last.out) = 2
    /\ last.pend = <<>>
    /\ InSpace \ Elems(last.out) # {}

(* -------------------------------- C2 ---------------------------------- *)

\* C2: whatever was created, linked and released, atomspace_get_atom on
\* the id of a live atom of the space returns the handle the create call
\* returned for it, whose id is the key, and so does every call of it made
\* while the atom is live.
C2_LookupLive ==
    \A a \in InSpace \cap Live :
        /\ atomspace_get_atom(handles[a].id) = a
        /\ (last.op = "get" /\ last.id = handles[a].id) =>
              /\ last.h = a
              /\ handles[last.h].id = last.id

\* A lookup that returned a live atom although a newer live atom shares
\* its bucket and another atom has been reclaimed.
C2_Witness ==
    /\ last.op = "get"
    /\ last.h \in Live
    /\ freed # {}
    /\ \E b \in InSpace \cap Live :
          /\ handles[b].id > last.id
          /\ handles[b].id % HASH_TABLE_SIZE = last.id % HASH_TABLE_SIZE

(* -------------------------------- C3 ---------------------------------- *)

\* C3: the lookup table maps no id to a reclaimed handle, and
\* atomspace_get_atom never returns one.
C3_NoReclaimedInIndex ==
    /\ \A i \in 1..Len(lookup_table) : lookup_table[i].value \notin freed
    /\ last.op = "get" => last.h \notin freed

(* -------------------------------- C6 ---------------------------------- *)

InFlight == {t \in Threads : pc[t] \in {"write", "unlock"}}

Assigned ==
    UNION {Elems(returned[t]) : t \in Threads}
        \cup {local_id[t] : t \in InFlight}

\* The number of calls that were assigned an id.
AssignedCalls ==
    SumTo([t \in Threads |->
              Len(returned[t]) + IF t \in InFlight THEN 1 ELSE 0],
          NumThreads)

\* C4: however the threads' calls interleave, the ids assigned are
\* pairwise distinct, none is 0, they form the contiguous range from 1,
\* and each thread's ids are strictly increasing in the order it got them.
C4_UniqueIds ==
    /\ Cardinality(Assigned) = AssignedCalls
    /\ 0 \notin Assigned
    /\ Assigned = 1..AssignedCalls
    /\ \A t \in Threads :
          /\ \A i, j \in 1..Len(returned[t]) :
                i < j => returned[t][i] < returned[t][j]
          /\ t \in InFlight =>
                \A i \in 1..Len(returned[t]) : returned[t][i] < local_id[t]

\* Two threads whose calls interleaved: one got an id between two ids of
\* the other, while one of them is inside generate_atom_id again.
C4_Witness ==
    \E t, u \in Threads :
        /\ t # u
        /\ Len(returned[t]) >= 2
        /\ Len(returned[u]) >= 1
        /\ returned[t][1] < returned[u][1]
        /\ returned[u][1] < returned[t][2]
        /\ InFlight # {}

(* -------------------------------- C10 --------------------------------- *)

\* A strength or confidence, in tenths, clamped to [0.0, 1.0].
Clamp(x) == IF x < 0 THEN 0 ELSE IF x > 10 THEN 10 ELSE x

\* C10: atom_get_tv right after atom_set_tv(h, s, c) on a live handle
\* returns (s, c) with each component clamped to [0, 1]; atom_get_av right
\* after atom_set_av(h, sti, lti, vlti) returns (sti, lti, vlti); a
\* freshly created atom reads back (1.0, 0.0) and (0, 0, 0); and a setter
\* on h leaves the truth and attention values of every other atom as
\* they were.
C10_ValueRoundTrip ==
    [][ /\ (last'.op = "set_tv+get_tv" /\ last'.h # NULL) =>
              last'.out = <<Clamp(last'.args[1]), Clamp(last'.args[2])>>
        /\ (last'.op = "set_av+get_av" /\ last'.h # NULL) =>
              last'.out = last'.args
        /\ last'.op = "create+get_tv" =>
              last'.out = <<DefaultStrength, DefaultConfidence>>
        /\ last'.op = "create+get_av" => last'.out = <<0, 0, 0>>
        /\ last'.op \in {"set_tv", "set_av"} =>
              \A b \in Live \ {last'.h} :
                  /\ handles'[b].tv = handles[b].tv
                  /\ handles'[b].av = handles[b].av
      ]_vars

(* -------------------------------- C11 --------------------------------- *)

\* C11: in every reachable state the truth strength and confidence of every
\* live atom lie in [0,1] (here in tenths, 0..10): atom_set_tv never stores
\* a component outside the range.
C11_TruthInRange ==
    \A a \in Live :
        /\ handles[a].tv.strength \in 0..DefaultStrength
        /\ handles[a].tv.confidence \in 0..DefaultStrength

(* -------------------------------- C12 --------------------------------- *)

\* C12: atom_create_link with an outgoing array holding a target that is
\* not in this AtomSpace fails and leaves everything as it was: it returns
\* no handle, adds no atom to the array, registers no id in the lookup
\* table, and changes no reference count and no incoming set.
C12_ForeignTargetRejected ==
    [][ (/\ last'.op = "create_link"
         /\ \E i \in 1..Len(last'.args) : last'.args[i] \notin InSpace)
            => /\ handles' = handles
               /\ UNCHANGED <<spaceVars, next_atom_id>>
      ]_vars

(* -------------------------------- C13 --------------------------------- *)

Accepted(n) == {cast[i].node : i \in {j \in 1..n : cast[j].accept}}

\* A reject vote was cast.
Rejected == \E i \in 1..Len(cast) : ~cast[i].accept

\* C14: an accept vote from a node that has already voted accept leaves
\* the record (phase, voted_nodes, vote_count) as it was.
C14_VoteIdempotent ==
    [][ (/\ Len(cast') = Len(cast) + 1
         /\ cast'[Len(cast')].accept
         /\ cast'[Len(cast')].node \in Accepted(Len(cast)))
            => consensus' = consensus ]_vars

\* A node voted accept, another node voted accept, the first voted
\* accept again.
C14_Witness ==
    /\ Len(cast) = 3
    /\ cast[1].accept /\ cast[2].accept /\ cast[3].accept
    /\ cast[1].node # cast[2].node
    /\ cast[3].node = cast[1].node

\* C15: a record created with required_votes = R is in phase Propose with
\* no votes until a vote is cast; after accept votes only, it is in phase
\* Accept or Commit; once R distinct nodes voted accept and none rejected
\* it is in phase Commit and consensus_is_committed is true; and with
\* fewer than R distinct accepts consensus_is_committed is false.
C15_CommitAtRequiredVotes ==
    consensus # NoConsensus =>
        /\ cast = <<>> =>
              consensus.phase = CONSENSUS_PROPOSE /\ consensus.vote_count = 0
        /\ (cast # <<>> /\ ~Rejected) =>
              consensus.phase \in {CONSENSUS_ACCEPT, CONSENSUS_COMMIT}
        /\ (Cardinality(Accepted(Len(cast))) >= consensus.required_votes
               /\ ~Rejected) =>
              consensus.phase = CONSENSUS_COMMIT /\ consensus_is_committed
        /\ Cardinality(Accepted(Len(cast))) < consensus.required_votes =>
              ~consensus_is_committed

(* -------------------------------- C16 --------------------------------- *)

\* C16 as stated: the heartbeat thread has enqueued a heartbeat by the end
\* of its first tick and one more in every tick after it: at least as many
\* heartbeats of this node were enqueued as sleeps are over.
C16_HeartbeatEachTick == hb_stat.enqueued >= hb_stat.ticks

\* C16 amended: in each tick, and first before its first sleep, the
\* heartbeat thread makes one send that does not block, of a Heartbeat
\* with source = this_node_id, dest = 0 and no payload; the message is
\* enqueued, last on the queue, when the queue has room for it, and is
\* dropped, the queue left as it was, when the queue is full.  It sleeps
\* once between two sends.
C16_HeartbeatAttempt ==
    [][ /\ (hb_pc = "send" /\ hb_pc' = "sleep") =>
              IF QueueSize(kqueue) + Header <= QueueBytes
                    /\ Len(kqueue) < QueueBytes
              THEN /\ Len(kqueue') = Len(kqueue) + 1
                   /\ SubSeq(kqueue', 1, Len(kqueue)) = kqueue
                   /\ LET m == kqueue'[Len(kqueue')]
                      IN  /\ m.body.type = "HEARTBEAT"
                          /\ m.body.source_node = ThisNode
                          /\ m.body.dest_node = 0
                          /\ m.body.payload_size = 0
                          /\ m.size = Header
                   /\ hb_stat'.enqueued >= hb_stat.enqueued
              ELSE kqueue' = kqueue /\ hb_stat'.enqueued = hb_stat.enqueued
        /\ (hb_pc # "send" /\ hb_pc' = "send") => hb_pc = "check" /\ running
        /\ (hb_pc = "send" /\ hb_pc' # "send") => hb_pc' = "sleep"
        /\ (hb_pc = "sleep" /\ hb_pc' # "sleep") => hb_pc' = "check"
        /\ (hb_pc = "none" /\ hb_pc' # "none") =>
              hb_pc' = "check" /\ running
      ]_vars

\* Two ticks of a running runtime: in one the queue was full and the
\* heartbeat was dropped, the heartbeat of the other is on the queue.
C16_Witness ==
    /\ hb_stat.ticks = 2
    /\ hb_stat.enqueued = 1
    /\ running
    /\ \E i \in 1..Len(kqueue) :
          kqueue[i].body.type = "HEARTBEAT"
              /\ kqueue[i].body.source_node = ThisNode

(* -------------------------------- C17 --------------------------------- *)

\* C17: distributed_stop on a running runtime terminates: once it has
\* cleared the flag, both threads exit and are joined and the call
\* returns, whatever is on the queue.  It is stated for the runs in which
\* callers can still send, so that a stop that hangs is never owed to the
\* bound on their sends.
C17_StopReturns ==
    (ctl_pc = "join_heartbeat") ~> (ctl_pc = "idle" \/ sent = MaxCallerSends)

(* -------------------------------- C18 --------------------------------- *)

\* C18: a receive does not block forever: one that finds the queue empty
\* and has a timeout above 0 returns (with no message, when the queue
\* stays empty), and one with timeout 0 returns at once with no message,
\* the queue left empty.  The first part is stated for the runs in which
\* processes can still send, so that a receive that hangs is never owed
\* to the bound on the sends.
C18_ReceiveReturns ==
    /\ (rcv.pc = "msgrcv") ~> (rcv.pc = "idle" \/ sent = MaxSends)
    /\ [](mq_last.op = "receive" /\ mq_last.before = <<>>
             => mq_last.result = 0 - 1 /\ mq_last.got = <<>>)

(* ----------------------------- C19, C20 ------------------------------ *)

\* The messages of the queue q with the highest priority.
Highest(q) == {i \in 1..Len(q) : \A j \in 1..Len(q) : q[j].mtype <= q[i].mtype}

\* C19: each receive on a queue that holds messages returns one of the
\* highest priority on the queue, the earliest sent of them, with its
\* priority; the message it takes off the queue is the one it returns (none
\* is lost), and none is returned twice (the numbers of the messages on
\* the queue are distinct and the one returned is gone).
C19_PriorityOrder ==
    /\ (mq_last.op = "receive" /\ mq_last.before # <<>>) =>
          /\ mq_last.got # <<>>
          /\ mq_last.got = mq_last.taken
          /\ \E i \in Highest(mq_last.before) :
                /\ mq_last.got[1] = mq_last.before[i]
                /\ \A j \in Highest(mq_last.before) : i <= j
          /\ mq_last.out_priority = mq_last.got[1].mtype - 1
          /\ \A k \in 1..Len(kqueue) : kqueue[k].seq # mq_last.got[1].seq
    /\ \A i, j \in 1..Len(kqueue) : i # j => kqueue[i].seq # kqueue[j].seq

\* C20: the queue never holds more than max_messages messages; a send on
\* a queue that holds max_messages messages, or of a message larger than
\* max_message_size, returns -1 and leaves the queue as it was.
C20_QueueBounded ==
    /\ Len(kqueue) <= MaxMessages
    /\ (/\ mq_last.op = "send"
        /\ \/ Len(mq_last.before) >= MaxMessages
           \/ mq_last.size > MaxMessageSize) =>
          /\ mq_last.result = 0 - 1
          /\ kqueue = mq_last.before

(* ----------------------------- C21, C22 ------------------------------ *)

\* The ids of the entries of a table, in order.
IdsOf(table) == [i \in 1..Len(table) |-> table[i].node_id]

\* C21: distributed_remove_node(id) on a table with an entry of that id
\* returns 0, takes one such entry out, lowers node_count by 1 and keeps
\* the other entries in their order; on a table with no such entry it
\* returns -1 and leaves the table as it was; and distributed_add_node(id)
\* on a table without the id, followed by two removes of it, gives 0 and
\* then -1.
C21_RemoveNode ==
    ctx_last.op = "remove_node" =>
        LET before == ctx_last.before
            had == \E i \in 1..Len(before) : before[i].node_id = ctx_last.id
        IN  /\ had =>
                /\ ctx_last.result = 0
                /\ Len(nodes) = Len(before) - 1
                /\ \E i \in 1..Len(before) :
                      /\ before[i].node_id = ctx_last.id
                      /\ \A j \in 1..Len(nodes) :
                            nodes[j] = IF j < i THEN before[j]
                                       ELSE before[j + 1]
            /\ ~had =>
                /\ ctx_last.result = 0 - 1
                /\ nodes = before
            /\ (/\ Len(ctx_last.trail) = 2
                /\ ctx_last.trail[1].op = "add_node"
                /\ ctx_last.trail[1].id = ctx_last.id
                /\ ~ctx_last.trail[1].had
                /\ ctx_last.trail[2].op = "remove_node"
                /\ ctx_last.trail[2].id = ctx_last.id) =>
                    /\ ctx_last.trail[2].result = 0
                    /\ ctx_last.result = 0 - 1

\* The middle one of three entries with distinct ids was removed, the
\* other two kept their order.
C21_Witness ==
    /\ ctx_last.op = "remove_node"
    /\ ctx_last.result = 0
    /\ Len(ctx_last.before) = 3
    /\ ctx_last.before[2].node_id = ctx_last.id
    /\ ctx_last.before[1].node_id # ctx_last.before[3].node_id
    /\ IdsOf(nodes) = <<ctx_last.before[1].node_id, ctx_last.before[3].node_id>>

\* C22: the node table never holds two entries with the same node_id.
C22_NoDuplicateIds ==
    \A i, j \in 1..Len(nodes) : i # j => nodes[i].node_id # nodes[j].node_id

(* -------------------------------- C26 --------------------------------- *)

\* C26: a heartbeat whose source has an entry in the node table sets the
\* last_heartbeat of one such entry to the message's timestamp and its
\* is_active to true, and leaves every other entry and node_count as they
\* were; a heartbeat of a source without an entry, and a message of every
\* other type, leaves the table as it was; a heartbeat calls no callback,
\* NODE_JOIN at most on_node_join, NODE_LEAVE at most on_node_leave, every
\* other type at most on_message, and a callback that is set is called.
C26_HandlerEffect ==
    [][(mh.pc = "handle" /\ mh'.pc # "handle") =>
        LET before == nodes
            msg == mh.msg
            known == \E i \in 1..Len(before) :
                        before[i].node_id = msg.source_node
        IN  /\ Len(nodes') = Len(before)
            /\ (msg.type = "HEARTBEAT" /\ known) =>
                  \E i \in 1..Len(before) :
                     /\ before[i].node_id = msg.source_node
                     /\ nodes'[i] = [node_id |-> msg.source_node,
                                     is_active |-> TRUE,
                                     last_heartbeat |-> msg.timestamp]
                     /\ \A j \in 1..Len(before) : j # i => nodes'[j] = before[j]
            /\ (msg.type # "HEARTBEAT" \/ ~known) => nodes' = before
            /\ ctx_last'.msg = msg
            /\ ctx_last'.invoked =
                  callbacks \cap
                  (CASE msg.type = "HEARTBEAT" -> {}
                     [] msg.type = "NODE_JOIN" -> {"on_node_join"}
                     [] msg.type = "NODE_LEAVE" -> {"on_node_leave"}
                     [] OTHER -> {"on_message"})]_vars

\* A heartbeat of node 2 was handled with all callbacks set and a table
\* that holds node 2 and another node: node 2 is marked, no callback ran.
C26_Witness ==
    /\ ctx_last.op = "handle"
    /\ ctx_last.msg.type = "HEARTBEAT"
    /\ callbacks = Callbacks
    /\ mh.pc = "check"
    /\ Len(nodes) >= 2
    /\ Len(ctx_last.before) = Len(nodes)
    /\ \E i, j \in 1..Len(nodes) :
          /\ nodes[i].node_id = ctx_last.msg.source_node
          /\ nodes[i].is_active
          /\ ~ctx_last.before[i].is_active
          /\ nodes[j].node_id # ctx_last.msg.source_node
    /\ ctx_last.invoked = {}

(* -------------------------------- C24 --------------------------------- *)

\* A worker of the runtime that was created and not yet joined.
HeartbeatAlive == hb_pc # "none"

HandlerAlive == mh.pc # "none"

\* C24: distributed_start on a running runtime returns -1, creates no
\* thread and leaves the runtime running; distributed_stop on a runtime
\* that is not running returns -1 and changes nothing; and a heartbeat or
\* handler thread is only ever created when the one before it has been
\* joined, so that there is at most one of each at any time.
C24_LifecycleRefused ==
    [][/\ (ctl_pc = "idle" /\ running /\ ctx_last'.op = "start"
            /\ ctx_last' # ctx_last) =>
              /\ ctx_last'.result = 0 - 1
              /\ running'
              /\ UNCHANGED runVars
       /\ (ctl_pc = "idle" /\ ~running /\ ctx_last'.op = "stop"
            /\ ctx_last' # ctx_last) =>
              /\ ctx_last'.result = 0 - 1
              /\ UNCHANGED runVars
       /\ (ctl_pc = "create_heartbeat" /\ ctl_pc' = "create_handler") =>
              ~HeartbeatAlive /\ ~HandlerAlive
       /\ (ctl_pc = "create_handler" /\ mh'.pc = "check") => ~HandlerAlive
       /\ (running' /\ ~running) => (~HeartbeatAlive /\ ~HandlerAlive)]_vars

\* A start was refused while both workers of the first start were at work.
C24_Witness ==
    /\ ctx_last.op = "start"
    /\ ctx_last.result = 0 - 1
    /\ running
    /\ hb_pc = "sleep"
    /\ mh.pc = "msgrcv"
    /\ ctl_pc = "idle"

\* A stop was refused on a runtime stopped before, its workers joined.
C24_StopRefused ==
    /\ ctx_last.op = "stop"
    /\ ctx_last.result = 0 - 1
    /\ ~running
    /\ hb_stat.ticks > 0
    /\ ~HeartbeatAlive
    /\ ~HandlerAlive

(* -------------------------------- C23 --------------------------------- *)

\* An entry whose last heartbeat is NODE_TIMEOUT_MS old or older.
Stale(entry) == clock - entry.last_heartbeat >= NodeTimeoutTicks

\* C23: a turn of the heartbeat thread that finds an active entry whose
\* last heartbeat is NODE_TIMEOUT_MS old or older leaves it inactive, so
\* that in the states after the runtime had a tick to sweep the active
\* entries are the fresh ones.
C23_ActiveIffFresh ==
    [][clock' = clock + 1 =>
        \A i \in 1..Len(nodes) :
            (nodes[i].is_active /\ Stale(nodes[i])) =>
                (Len(nodes') >= i /\ ~nodes'[i].is_active)]_vars

(* -------------------------------- C25 --------------------------------- *)

\* The threads between shared_memory_lock and shared_memory_unlock.
Holders == {p \in Parties : Party(p).pc # "idle"}

\* C25: at most one thread is between shared_memory_lock and
\* shared_memory_unlock, and it is the one the mutex records; what a holder
\* reads is what the last holder that wrote left there, whole; and every
\* shared_memory_lock returns the same pointer.
C25_SharedRegion ==
    /\ Cardinality(Holders) <= 1
    /\ \A p \in Holders : shm.lock = p
    /\ Holders = {} => shm.lock = 0
    /\ \A p \in Parties :
          /\ Party(p).got = Party(p).expect
          /\ Party(p).ptr \in {NULL, ShmAddr + MutexSize}
    /\ \A p, q \in Parties :
          (Party(p).ptr # NULL /\ Party(q).ptr # NULL) =>
              Party(p).ptr = Party(q).ptr

\* A thread holds the segment and has read what the other thread wrote
\* under its own lock, while that thread is waiting.
C25_Witness ==
    \E p, q \in Parties :
        /\ p # q
        /\ Party(p).pc = "locked"
        /\ Party(p).got = <<MaxValue, MaxValue>>
        /\ Party(p).v = 0
        /\ Party(q).v = MaxValue
        /\ Party(q).pc = "idle"
        /\ Party(q).ptr # NULL

(* -------------------------------- C29 --------------------------------- *)

\* C29: the message distributed_receive_message returns has the type,
\* source, destination, timestamp and payload_size of the message at the
\* head of the queue as its sender passed it to distributed_send_message;
\* its payload is NULL when payload_size is 0, else a buffer allocated by
\* the receive, other than any buffer the sender still has, that holds the
\* first payload_size bytes of the sender's payload.
C29_RoundTrip ==
    rx.pc = "received" =>
        /\ rx.out.type = rx.orig.type
        /\ rx.out.source_node = rx.orig.source_node
        /\ rx.out.dest_node = rx.orig.dest_node
        /\ rx.out.timestamp = rx.orig.timestamp
        /\ rx.out.payload_size = rx.orig.payload_size
        /\ rx.orig.payload_size = 0 => rx.out.payload = NULL
        /\ rx.orig.payload_size > 0 =>
              /\ rx.out.payload # NULL
              /\ Buffer(heap, rx.out.payload).live
              /\ Buffer(heap, rx.out.payload).owner = "receiver"
              /\ Buffer(heap, rx.out.payload).bytes =
                    Prefix(rx.orig_bytes, rx.orig.payload_size)

\* A message with one byte of payload out of a buffer of two came back
\* in a new buffer while the sender still holds its own.
C29_Witness ==
    /\ rx.pc = "received"
    /\ rx.orig.payload_size = 1
    /\ Len(rx.orig_bytes) = 2
    /\ rx.orig.payload # NULL
    /\ Buffer(heap, rx.orig.payload).live
    /\ Buffer(heap, rx.orig.payload).owner = "sender"
    /\ Buffer(heap, rx.orig.payload).bytes = rx.orig_bytes
    /\ rx.out.payload # rx.orig.payload
    /\ Buffer(heap, rx.out.payload).bytes = <<rx.orig_bytes[1]>>

(* -------------------------------- C27 --------------------------------- *)

\* C27: with no thread inside atom_create, every handle created sits in a
\* slot of its own below atom_count, and atom_count and total_atoms_created
\* both equal the number of creations; atom_count is within the capacity.
C27_CreateAtomic ==
    (\A t \in Threads : Creator(t).pc = "idle") =>
        /\ atom_count = Cardinality(Live)
        /\ total_atoms_created = Cardinality(Live)
        /\ {atoms[i] : i \in 1..atom_count} = Live
        /\ atom_count <= atom_capacity

(* -------------------------------- C28 --------------------------------- *)

\* C28: the handler never reads an entry that was freed, nor a slot at or
\* above node_count.
C28_TableSerialized == scan.fault = "none"

====
